---- MODULE Spec2Model ----
(***************************************************************************)
(* Restorable scenes (custom_components/res_scene): the scene store        *)
(* manager ResSceneManager, its capture (save_scene), restoration          *)
(* (apply_scene / apply_state) and removal (delete_scene) operations.      *)
(*                                                                         *)
(* Python values are represented as follows.                               *)
(*   dict            a function; `k in d` is k \in DOMAIN d                *)
(*   None            the value None below (only where a dict may stand)    *)
(*   entity id       the tuple <<domain, object_id>> ("light.1" is      *)
(*                   <<"light", 1>>), so that eid.split(".")[0] is    *)
(*                   eid[1]; the reserved key "_options" is <<"_options">> *)
(*   State object    [state |-> str, attributes |-> dict]; an entity the   *)
(*                   state source does not know is absent from hass_states *)
(*   attribute value a string; a null attribute is the string Null         *)
(***************************************************************************)
EXTENDS Integers, Sequences, FiniteSets, TLC

VARIABLES
    stored_data,    \* ResSceneManager.stored_data: scene_id -> scene dict
    persisted,      \* the document last handed to store.async_save
    hass_states,    \* hass.states: entity id -> State object
    user_options,   \* ResSceneManager._user_options
    calls,          \* per entity, the service calls the last operation issued
    signals,        \* the dispatcher signals the last operation sent, in order
    last,           \* the last operation: its arguments and its outcome
    held,           \* the option dicts a caller holds: reference -> dict
    shared,         \* the held references that are the object _user_options is
    runs,           \* the coroutines of async_run_actions_sequentially under way
    listeners,      \* the subscriptions async_track_state_change_event holds
    inflight,       \* the service calls accepted and not yet acted on
    ops,            \* the save_scene and delete_scene calls under way, by call id
    writes,         \* the calls waiting in store.async_save, in the order they came
    selectors       \* the ResSceneSelector entities: their options and current option

vars == <<stored_data, persisted, hass_states, user_options, calls, signals, last,
          held, shared, runs, listeners, inflight, ops, writes, selectors>>

\* the variables the operations of the scene store leave alone
callers == <<held, shared>>
watching == <<runs, listeners, inflight>>
platform == <<ops, writes, selectors>>

---------------------------------------------------------------------------
(* Python helpers *)

None == [None |-> TRUE]
EmptyDict == <<>>
Null == "null"

\* d.get(k, default)
Get(d, k, default) == IF k \in DOMAIN d THEN d[k] ELSE default

\* d.update(e): the keys of e override those of d
Update(d, e) == e @@ d

\* d without key k (del d[k], d.pop(k))
Without(d, k) == [x \in DOMAIN d \ {k} |-> d[x]]

---------------------------------------------------------------------------
(* homeassistant.const *)

STATE_ON == "on"
STATE_OFF == "off"
STATE_UNAVAILABLE == "unavailable"
STATE_UNKNOWN == "unknown"
SERVICE_TURN_ON == "turn_on"
SERVICE_TURN_OFF == "turn_off"
ATTR_STATE == "state"
OPTIONS_KEY == <<"_options">>
SCENE_ADDED == "scene_added"
SCENE_REMOVED == "scene_removed"

\* const.ACTION_TIMEOUT_DEFAULT, the built-in confirmation timeout
ACTION_TIMEOUT_DEFAULT == "ACTION_TIMEOUT_DEFAULT"

\* the delay in seconds call_service sleeps after a service call
SERVICE_CALL_DELAY == 1

\* domain = eid.split(".")[0]
DomainOf(eid) == eid[1]

\* the domains save_scene and apply_state refuse
NON_RESTORABLE ==
    {"sensor", "binary_sensor", "device_tracker", "camera", "vacuum", "scene", "script"}

---------------------------------------------------------------------------
(* apply_state: the commands that restore one entity *)

COLOR_MODE_ATTRS ==
    [onoff |-> {},
     brightness |-> {"brightness", "brightness_pct"},
     hs |-> {"hs_color", "brightness", "brightness_pct"},
     rgb |-> {"rgb_color", "brightness", "brightness_pct"},
     rgbw |-> {"rgbw_color", "brightness", "brightness_pct"},
     rgbww |-> {"rgbww_color", "brightness", "brightness_pct"},
     xy |-> {"xy_color", "brightness", "brightness_pct"},
     color_temp |-> {"color_temp", "color_temp_kelvin", "brightness", "brightness_pct"}]

ATTR_ATTRS ==
    [profile |-> {"brightness", "brightness_pct"},
     white |-> {"brightness", "brightness_pct"}]

COMMON_LIGHT_ATTRS == {"effect", "flash", "white", "profile"}

ON_OFF_DOMAINS == {"fan", "humidifier", "remote", "siren", "switch", "input_boolean"}

\* the state strings float() parses, and the float each gives
FloatStrings == {"0", "5", "21.5"}
ToFloat(s) == CASE s = "0" -> "0.0" [] s = "5" -> "5.0" [] OTHER -> s

\* attrs: the attributes of info whose value is not None
SavedAttrs(info) ==
    LET a == Get(info, "attributes", EmptyDict)
    IN  [k \in {x \in DOMAIN a : a[x] # Null} |-> a[k]]

\* a command awaited through async_call_and_wait_state for at most `timeout`
Watch(domain, service, data, expected, timeout) ==
    [kind |-> "watch", domain |-> domain, service |-> service, data |-> data,
     expected |-> expected, timeout |-> timeout, delay |-> 0]

\* a command sent through the helper call_service, which sleeps
\* SERVICE_CALL_DELAY once the call has returned
Call(domain, service, data) ==
    [kind |-> "call", domain |-> domain, service |-> service, data |-> data,
     expected |-> Null, timeout |-> Null, delay |-> SERVICE_CALL_DELAY]

\* the target of every command of apply_state
EntityData(eid) == [entity_id |-> eid]

AllowedLightAttrs(attrs) ==
    IF "profile" \in DOMAIN attrs THEN ATTR_ATTRS.profile
    ELSE IF "white" \in DOMAIN attrs THEN ATTR_ATTRS.white
    ELSE LET color_mode == Get(attrs, "color_mode", "color_temp")
         IN  IF color_mode \in DOMAIN COLOR_MODE_ATTRS
             THEN COLOR_MODE_ATTRS[color_mode] ELSE {}

\* a filter that keeps both members of a redundant attribute pair
SafeLightAttrsNoDedupe(attrs) ==
    LET allowed == AllowedLightAttrs(attrs)
    IN  [k \in {x \in DOMAIN attrs : x \in allowed \/ x \in COMMON_LIGHT_ATTRS} |->
            attrs[k]]

SafeLightAttrs(attrs) ==
    LET allowed == AllowedLightAttrs(attrs)
        kept == {k \in DOMAIN attrs : k \in allowed \/ k \in COMMON_LIGHT_ATTRS}
        no_mired == IF {"color_temp_kelvin", "color_temp"} \subseteq kept
                    THEN kept \ {"color_temp"} ELSE kept
        no_pct == IF {"brightness", "brightness_pct"} \subseteq no_mired
                  THEN no_mired \ {"brightness_pct"} ELSE no_mired
    IN  [k \in no_pct |-> attrs[k]]

\* a light restoration that powers a light saved "off" off before it powers it on
LightStepsOffFirst(eid, state, attrs, options) ==
    LET restore_attrs == Get(options, "restore_light_attributes", FALSE)
        timeout == Get(options, "action_timeout", ACTION_TIMEOUT_DEFAULT)
        on_data == SafeLightAttrs(attrs) @@ [entity_id |-> eid, transition |-> 0]
        off_data == [entity_id |-> eid, transition |-> 0]
    IN  (IF state = STATE_OFF
         THEN <<Watch("light", SERVICE_TURN_OFF, off_data, STATE_OFF, timeout)>>
         ELSE <<>>)
        \o (IF (state = STATE_ON) \/ restore_attrs
            THEN <<Watch("light", SERVICE_TURN_ON, on_data, STATE_ON, timeout)>>
            ELSE <<>>)

LightSteps(eid, state, attrs, options) ==
    LET restore_attrs == Get(options, "restore_light_attributes", FALSE)
        should_restore == (state = STATE_ON) \/ restore_attrs
        timeout == Get(options, "action_timeout", ACTION_TIMEOUT_DEFAULT)
        on_data == SafeLightAttrs(attrs) @@ [entity_id |-> eid, transition |-> 0]
        off_data == [entity_id |-> eid, transition |-> 0]
    IN  (IF should_restore
         THEN <<Watch("light", SERVICE_TURN_ON, on_data, STATE_ON, timeout)>> ELSE <<>>)
        \o (IF state = STATE_OFF
            THEN <<Watch("light", SERVICE_TURN_OFF, off_data, STATE_OFF, timeout)>>
            ELSE <<>>)

CoverSteps(eid, state, attrs) ==
    LET has_position == "position" \in DOMAIN attrs
        has_tilt == "tilt_position" \in DOMAIN attrs
        service == IF state = "open" THEN "open_cover"
                   ELSE IF state = "closed" THEN "close_cover"
                   ELSE IF state = STATE_ON THEN "open_cover" ELSE "close_cover"
    IN  (IF has_position
         THEN <<Call("cover", "set_cover_position",
                     [entity_id |-> eid, position |-> attrs["position"]])>>
         ELSE <<>>)
        \o (IF has_tilt
            THEN <<Call("cover", "set_cover_tilt_position",
                        [entity_id |-> eid, tilt_position |-> attrs["tilt_position"]])>>
            ELSE <<>>)
        \o (IF ~has_position /\ ~has_tilt
            THEN <<Call("cover", service, EntityData(eid))>> ELSE <<>>)

\* one climate sub-attribute command, when the attribute is saved
ClimateSub(eid, attrs, key) ==
    IF key \in DOMAIN attrs
    THEN <<Call("climate", "set_" \o key, (key :> attrs[key]) @@ EntityData(eid))>>
    ELSE <<>>

ClimateSteps(eid, state, attrs) ==
    LET hvac == [entity_id |-> eid, hvac_mode |-> state]
    IN  (IF state = "heat_cool" /\ {"target_temp_low", "target_temp_high"} \subseteq DOMAIN attrs
         THEN <<Call("climate", "set_temperature",
                     [target_temp_low |-> attrs["target_temp_low"],
                      target_temp_high |-> attrs["target_temp_high"]] @@ hvac)>>
         ELSE IF "temperature" \in DOMAIN attrs
         THEN <<Call("climate", "set_temperature",
                     [temperature |-> attrs["temperature"]] @@ hvac)>>
         ELSE <<>>)
        \o ClimateSub(eid, attrs, "fan_mode")
        \o ClimateSub(eid, attrs, "swing_mode")
        \o ClimateSub(eid, attrs, "preset_mode")
        \o ClimateSub(eid, attrs, "humidity")

MediaPlayerService ==
    [on |-> SERVICE_TURN_ON, off |-> SERVICE_TURN_OFF, playing |-> "media_play",
     paused |-> "media_pause", idle |-> "media_stop"]

MediaPlayerSteps(eid, state, attrs) ==
    IF state \notin DOMAIN MediaPlayerService THEN <<>>
    ELSE <<Call("media_player", MediaPlayerService[state], EntityData(eid))>>
         \o (IF "volume_level" \in DOMAIN attrs
             THEN <<Call("media_player", "volume_set",
                         [entity_id |-> eid, volume_level |-> attrs["volume_level"]])>>
             ELSE <<>>)
         \o (IF "source" \in DOMAIN attrs
             THEN <<Call("media_player", "select_source",
                         [entity_id |-> eid, source |-> attrs["source"]])>>
             ELSE <<>>)

\* the branch of apply_state for the entity's domain
DomainSteps(eid, state, attrs, options) ==
    LET domain == DomainOf(eid)
    IN  CASE domain = "light" -> LightSteps(eid, state, attrs, options)
          [] domain = "cover" -> CoverSteps(eid, state, attrs)
          [] domain = "climate" -> ClimateSteps(eid, state, attrs)
          [] domain = "media_player" -> MediaPlayerSteps(eid, state, attrs)
          [] domain = "lock" ->
                <<Call("lock", IF state = "locked" THEN "lock" ELSE "unlock",
                       EntityData(eid))>>
          [] domain \in ON_OFF_DOMAINS ->
                <<Call(domain, IF state = STATE_ON THEN SERVICE_TURN_ON
                               ELSE SERVICE_TURN_OFF, EntityData(eid))>>
          [] domain = "input_number" ->
                IF state \in FloatStrings
                THEN <<Call("input_number", "set_value",
                            [entity_id |-> eid, value |-> ToFloat(state)])>>
                ELSE <<>>
          [] domain = "input_select" ->
                <<Call("input_select", "select_option",
                       [entity_id |-> eid, option |-> state])>>
          [] domain = "input_text" ->
                <<Call("input_text", "set_value", [entity_id |-> eid, value |-> state])>>
          [] OTHER -> <<>>

\* "if not state": the saved state is None or empty
NoSavedState(info) == ATTR_STATE \notin DOMAIN info \/ info[ATTR_STATE] = ""

\* a target check that only looks for the entity in the state source
TargetUnusableAbsentOnly(live, eid) == eid \notin DOMAIN live

\* target_state = self.hass.states.get(eid) is None, unavailable or unknown
TargetUnusable(live, eid) ==
    \/ eid \notin DOMAIN live
    \/ live[eid].state \in {STATE_UNAVAILABLE, STATE_UNKNOWN}

\* the skip of the non-restorable domains
DomainNotRestorable(eid) == DomainOf(eid) \in NON_RESTORABLE

\* the early returns of apply_state, taken before any command
ApplySkips(live, eid, info) ==
    \/ NoSavedState(info)
    \/ TargetUnusable(live, eid)
    \/ DomainNotRestorable(eid)
    \/ (DomainOf(eid) = "lock" /\ info[ATTR_STATE] \notin {"locked", "unlocked"})

\* a restoration that knows no refused domain and sends every other domain the
\* generic power command
ApplyStateGeneric(live, eid, info, options) ==
    IF NoSavedState(info) \/ TargetUnusable(live, eid) THEN <<>>
    ELSE LET steps == DomainSteps(eid, info[ATTR_STATE], SavedAttrs(info), options)
         IN  IF steps # <<>> THEN steps
             ELSE <<Call("homeassistant",
                         IF info[ATTR_STATE] = STATE_OFF THEN SERVICE_TURN_OFF
                         ELSE SERVICE_TURN_ON, EntityData(eid))>>

\* the commands apply_state(eid, info, options) sets out to issue, in order,
\* with `live` the content of hass.states
ApplyState(live, eid, info, options) ==
    IF ApplySkips(live, eid, info) THEN <<>>
    ELSE DomainSteps(eid, info[ATTR_STATE], SavedAttrs(info), options)

---------------------------------------------------------------------------
(* The bounded world: scene ids, entities, the states the state source     *)
(* reports, the documents the store holds at start-up and the inputs.      *)

SceneIds == {"evening", "away"}

NumSwitches == 1

Light == <<"light", 1>>
Switch == <<"switch", 1>>
Sensor == <<"sensor", 1>>
Switches == {<<"switch", i>> : i \in 1..NumSwitches}
Entities == {Light, Sensor} \cup Switches

StateObj(state, attributes) == [state |-> state, attributes |-> attributes]

\* the State object the state source holds for eid once it reports `state`
Reported(eid, state) ==
    IF DomainOf(eid) = "light" /\ state = STATE_ON
    THEN StateObj(state, [brightness |-> "128", color_mode |-> "brightness"])
    ELSE IF DomainOf(eid) = "light" /\ state = STATE_OFF
    THEN StateObj(state, [brightness |-> Null, color_mode |-> Null])
    ELSE StateObj(state, EmptyDict)

\* the states each entity may report
LiveStates(eid) ==
    CASE DomainOf(eid) = "light" -> {STATE_ON, STATE_OFF, STATE_UNAVAILABLE}
      [] DomainOf(eid) = "switch" -> {STATE_ON, STATE_UNAVAILABLE}
      [] OTHER -> {"21.5"}

\* the entities that may be missing from the state source
Removable == {Light}

\* the State objects eid may have in the state source
LiveObjects(eid) == {Reported(eid, st) : st \in LiveStates(eid)}

\* the contents hass.states may have
HassStates ==
    UNION {{h \in [present -> UNION {LiveObjects(e) : e \in Entities}] :
               \A e \in present : h[e] \in LiveObjects(e)}
           : present \in {p \in SUBSET Entities : Entities \ Removable \subseteq p}}

\* the documents store.async_load() may return at start-up
StoredDocs ==
    { EmptyDict,
      ("evening" :> ( Light :> StateObj(STATE_OFF, [brightness |-> "40"])
                   @@ Switch :> StateObj(STATE_ON, EmptyDict)
                   @@ Sensor :> StateObj("19.0", EmptyDict) )),
      ("evening" :> ( Light :> StateObj(STATE_UNKNOWN, EmptyDict)
                   @@ Switch :> [attributes |-> EmptyDict]
                   @@ OPTIONS_KEY :> [restore_light_attributes |-> TRUE] ))
      @@ ("away" :> ( Switch :> StateObj(STATE_OFF, EmptyDict) )) }

\* the global options async_setup_entry may install
UserOptionChoices ==
    {[restore_light_attributes |-> FALSE]}

\* the options argument of save_scene
OptionChoices == {None, [restore_light_attributes |-> TRUE]}

\* the requests save_scene receives: any entity set for the first scene id, the
\* switch alone and no options for the second
SaveRequests ==
    {<<"evening", es, o>> : es \in SUBSET Entities, o \in OptionChoices}
        \cup {<<"away", {Switch}, None>>}

\* the outcome of a command: "ok" (the call returned; a watch saw the expected
\* state), "timeout" (a watch ended at its timeout), "raise" (async_call raised),
\* "unreached" (an earlier command of the same entity raised)
OUTCOMES == {"ok", "timeout", "raise", "unreached"}

\* the outcomes the commands `steps` of one entity may have
StepOutcomes(steps) ==
    {o \in [1..Len(steps) -> OUTCOMES] :
        \A i \in 1..Len(steps) :
            /\ o[i] = "timeout" => steps[i].kind = "watch"
            /\ o[i] = "unreached" <=> \E j \in 1..(i - 1) : o[j] = "raise"}

\* the commands of `steps` that were issued under outcomes o, each with its
\* outcome, the timeout of its watch and the delay slept after it (none after a
\* call that raised)
Issued(steps, o) ==
    [i \in {j \in 1..Len(steps) : o[j] # "unreached"} |->
        [domain |-> steps[i].domain, service |-> steps[i].service,
         data |-> steps[i].data, outcome |-> o[i], timeout |-> steps[i].timeout,
         delay |-> IF o[i] = "raise" THEN 0 ELSE steps[i].delay]]

Raised(o) == \E i \in DOMAIN o : o[i] = "raise"

\* the state the last watch that saw its expected state leaves in the state source
AfterWatches(eid, steps, o, before) ==
    LET seen == {i \in 1..Len(steps) : steps[i].kind = "watch" /\ o[i] = "ok"}
    IN  IF seen = {} THEN before
        ELSE LET m == CHOOSE i \in seen : \A j \in seen : j <= i
             IN  (eid :> Reported(eid, steps[m].expected)) @@ before

\* no service call for any of the entities the log follows
NoCalls == [e \in DOMAIN calls |-> <<>>]

---------------------------------------------------------------------------
(* save_scene *)

\* _options = deepcopy(self._user_options); _options.update(options or {})
MergedOptions(options) ==
    Update(user_options, IF options = None THEN EmptyDict ELSE options)

\* the filter of the non-restorable domains at the head of the capture loop
Supported(snapshot_entities) ==
    {eid \in snapshot_entities : DomainOf(eid) \notin NON_RESTORABLE}

\* an elicitation of every light that is off, whatever the options say
ElicitedAnyOffLight(snapshot_entities, _options) ==
    {eid \in Supported(snapshot_entities) :
        /\ eid \in DOMAIN hass_states
        /\ DomainOf(eid) = "light"
        /\ hass_states[eid].state = STATE_OFF}

\* the lights captured by elicitation (snapshot_light tasks)
Elicited(snapshot_entities, _options) ==
    {eid \in Supported(snapshot_entities) :
        /\ eid \in DOMAIN hass_states
        /\ Get(_options, "restore_light_attributes", FALSE)
        /\ DomainOf(eid) = "light"
        /\ hass_states[eid].state = STATE_OFF}

\* a capture that leaves out the entities reporting "unavailable"
DirectAvailableOnly(snapshot_entities, _options) ==
    {eid \in Supported(snapshot_entities) :
        /\ eid \in DOMAIN hass_states
        /\ hass_states[eid].state # STATE_UNAVAILABLE}
        \ Elicited(snapshot_entities, _options)

\* the entities whose live state is recorded as read
Direct(snapshot_entities, _options) ==
    {eid \in Supported(snapshot_entities) : eid \in DOMAIN hass_states}
        \ Elicited(snapshot_entities, _options)

\* the two commands of snapshot_light
SnapshotLightSteps(eid, timeout) ==
    <<Watch("light", SERVICE_TURN_ON, [transition |-> 0], STATE_ON, timeout),
      Watch("light", SERVICE_TURN_OFF, [transition |-> 0], STATE_OFF, timeout)>>

\* a snapshot_light that returns a snapshot only when both watches matched
SnapshotTakenBoth(o) == o[1] = "ok" /\ o[2] = "ok"

\* snapshot_light returned a snapshot: its power-on watch saw "on"
SnapshotTaken(o) == o[1] = "ok"

\* states after the direct captures and the results of the tasks
Captured(snapshot_entities, _options, out) ==
    [eid \in Direct(snapshot_entities, _options)
             \cup {e \in Elicited(snapshot_entities, _options) : SnapshotTaken(out[e])} |->
        IF eid \in Direct(snapshot_entities, _options)
        THEN StateObj(hass_states[eid].state, hass_states[eid].attributes)
        ELSE StateObj(STATE_OFF, Reported(eid, STATE_ON).attributes)]

\* the previous entry may stand in: its state is not unavailable, unknown or None
PrevValid(prev_state) ==
    /\ ATTR_STATE \in DOMAIN prev_state
    /\ prev_state[ATTR_STATE] \notin {STATE_UNAVAILABLE, STATE_UNKNOWN}

\* a fallback that only fills in the entities without a snapshot
NeedsFallbackMissingOnly(prev_eid, snapshot_entities, states) ==
    /\ prev_eid \in snapshot_entities
    /\ prev_eid \notin DOMAIN states

\* the entry of the previous scene is considered for the fallback
NeedsFallback(prev_eid, snapshot_entities, states) ==
    /\ prev_eid \in snapshot_entities
    /\ \/ prev_eid \notin DOMAIN states
       \/ Get(states[prev_eid], ATTR_STATE, Null) = STATE_UNAVAILABLE

\* the fallback pass over the scene stored under scene_id
WithFallback(scene_id, snapshot_entities, states) ==
    LET prev == Get(stored_data, scene_id, EmptyDict)
        reused == {prev_eid \in DOMAIN prev :
                      /\ NeedsFallback(prev_eid, snapshot_entities, states)
                      /\ PrevValid(prev[prev_eid])}
    IN  [eid \in DOMAIN states \cup reused |->
            IF eid \in reused THEN prev[eid] ELSE states[eid]]

\* if options is not None: states["_options"] = options
WithOptions(states, options) ==
    IF options # None THEN (OPTIONS_KEY :> options) @@ states ELSE states

\* a save that merges the new entries into the scene already stored
StoreSceneMerge(scene_id, states) ==
    (scene_id :> (states @@ Get(stored_data, scene_id, EmptyDict))) @@ stored_data

\* a save that stores nothing when no entity was captured
StoreSceneUnlessEmpty(scene_id, states) ==
    IF DOMAIN states \ {OPTIONS_KEY} = {} THEN stored_data
    ELSE (scene_id :> states) @@ stored_data

\* self.stored_data[scene_id] = states
StoreScene(scene_id, states) == (scene_id :> states) @@ stored_data

\* what the last operation was given and how it ended: `returned` is the value
\* apply_scene returned, `raised` whether an exception left the operation, `saved`
\* whether it called store.async_save, `stored` and `live` the stored map and
\* the state source as the operation found them
Op(op, scene_id, entities, options, returned, raised, saved) ==
    [op |-> op, scene_id |-> scene_id, entities |-> entities, options |-> options,
     returned |-> returned, raised |-> raised, saved |-> saved,
     stored |-> stored_data, live |-> hass_states]

NoOp ==
    [op |-> "none", scene_id |-> "", entities |-> {}, options |-> None,
     returned |-> FALSE, raised |-> FALSE, saved |-> FALSE,
     stored |-> EmptyDict, live |-> EmptyDict]

\* the state source once the watches of `steps` have ended with outcomes out
LiveAfter(watched, steps, out) ==
    [e \in DOMAIN hass_states |->
        IF e \in watched
        THEN AfterWatches(e, steps[e], out[e], hass_states)[e]
        ELSE hass_states[e]]

\* the calls of the entities `acted`, each with its commands and outcomes
CallsOf(acted, steps, out) ==
    [e \in DOMAIN calls |-> IF e \in acted THEN Issued(steps[e], out[e]) ELSE <<>>]

\* one outcome vector per entity of `acted`
OutcomeChoices(acted, steps) ==
    {out \in [acted -> UNION {StepOutcomes(steps[e]) : e \in acted}] :
        \A e \in acted : out[e] \in StepOutcomes(steps[e])}

SaveScene(scene_id, snapshot_entities, options) ==
    LET _options == MergedOptions(options)
        tasks == Elicited(snapshot_entities, _options)
        timeout == Get(_options, "action_timeout", ACTION_TIMEOUT_DEFAULT)
        steps == [e \in tasks |-> SnapshotLightSteps(e, timeout)]
    IN  \E out \in OutcomeChoices(tasks, steps) :
            LET failed == {e \in tasks : Raised(out[e])}
                states == WithOptions(
                              WithFallback(scene_id, snapshot_entities,
                                           Captured(snapshot_entities, _options, out)),
                              options)
            IN  /\ calls' = CallsOf(tasks, steps, out)
                /\ hass_states' = LiveAfter(tasks, steps, out)
                /\ IF failed # {}
                   THEN \* asyncio.gather re-raises: save_scene ends here
                        /\ UNCHANGED <<stored_data, persisted>>
                        /\ signals' = <<>>
                   ELSE /\ stored_data' = StoreScene(scene_id, states)
                        /\ persisted' = stored_data'
                        /\ signals' = <<<<SCENE_ADDED, scene_id>>>>
                /\ last' = Op("save", scene_id, snapshot_entities, options,
                              FALSE, failed # {}, failed = {})
                /\ UNCHANGED user_options

---------------------------------------------------------------------------
(* delete_scene *)

\* if scene_id in self.stored_data
DeleteFinds(scene_id) == scene_id \in DOMAIN stored_data

\* a removal that announces only the scenes it found
DeleteSignalsIfFound(scene_id) ==
    IF DeleteFinds(scene_id) THEN <<<<SCENE_REMOVED, scene_id>>>> ELSE <<>>

\* the signals delete_scene sends
DeleteSignals(scene_id) == <<<<SCENE_REMOVED, scene_id>>>>

DeleteScene(scene_id) ==
    /\ IF DeleteFinds(scene_id)
       THEN /\ stored_data' = Without(stored_data, scene_id)
            /\ persisted' = stored_data'
       ELSE UNCHANGED <<stored_data, persisted>>
    /\ signals' = DeleteSignals(scene_id)
    /\ calls' = NoCalls
    /\ last' = Op("delete", scene_id, {}, None, FALSE, FALSE, DeleteFinds(scene_id))
    /\ UNCHANGED <<hass_states, user_options>>

---------------------------------------------------------------------------
(* apply_scene *)

\* a stored value that is a list, as the store may hold in place of a dict
ListOf(items) == [list |-> items]

\* isinstance(v, dict), for the values a scene may hold under "_options"
IsDict(v) == DOMAIN v \cap {"list", "None"} = {}

\* saved_options = states.pop("_options", {}) or {}
SavedOptions(scene) ==
    LET v == Get(scene, OPTIONS_KEY, EmptyDict)
    IN  IF v = None \/ v = ListOf(<<>>) THEN EmptyDict ELSE v

\* a merge in which the global user options override the options of the scene
SceneOptionsUserWins(scene) ==
    IF IsDict(SavedOptions(scene)) THEN Update(SavedOptions(scene), user_options)
    ELSE user_options

\* _options: the saved options merged over the user options, or the user options
\* alone when the saved value is no dict
SceneOptions(scene) ==
    IF IsDict(SavedOptions(scene)) THEN Update(user_options, SavedOptions(scene))
    ELSE user_options

\* a success flag that a timed-out watch clears as well
SuccessNoTimeout(out) ==
    \A e \in DOMAIN out : \A i \in DOMAIN out[e] : out[e][i] \notin {"raise", "timeout"}

\* success: no safe_apply caught an exception
Success(out) == \A e \in DOMAIN out : ~Raised(out[e])

\* a gather whose first exception cancels the restorations still running
GatheredAborting(eids, steps, out) ==
    IF \E e \in eids : Raised(out[e])
    THEN CallsOf({e \in eids : Raised(out[e])}, steps, out)
    ELSE CallsOf(eids, steps, out)

\* the commands of the concurrent safe_apply tasks
Gathered(eids, steps, out) == CallsOf(eids, steps, out)

\* an apply that takes "_options" out of the stored scene itself
StoredAfterApplyPopped(scene_id) ==
    [stored_data EXCEPT ![scene_id] = Without(@, OPTIONS_KEY)]

\* states = deepcopy(self.stored_data[scene_id] or {}); states.pop("_options"):
\* the pop acts on the copy and the stored map is as it was
StoredAfterApply(scene_id) == stored_data

\* apply_scene once the scene is found
ApplyStored(scene_id, scene) ==
    LET _options == SceneOptions(scene)
        eids == DOMAIN scene \ {OPTIONS_KEY}
        steps == [eid \in eids |-> ApplyState(hass_states, eid, scene[eid], _options)]
    IN  \E out \in OutcomeChoices(eids, steps) :
            /\ calls' = Gathered(eids, steps, out)
            /\ hass_states' = LiveAfter(eids, steps, out)
            /\ signals' = <<>>
            /\ last' = Op("apply", scene_id, eids, None, Success(out), FALSE, FALSE)
            /\ stored_data' = StoredAfterApply(scene_id)
            /\ UNCHANGED <<persisted, user_options>>

\* apply_scene on an id that is not stored
ApplyNotFound(scene_id) ==
    /\ calls' = NoCalls
    /\ signals' = <<>>
    /\ last' = Op("apply", scene_id, {}, None, FALSE, FALSE, FALSE)
    /\ UNCHANGED <<stored_data, persisted, hass_states, user_options>>

\* an apply that reads an id that is not stored as an empty scene
ApplySceneGetDefault(scene_id) ==
    ApplyStored(scene_id, Get(stored_data, scene_id, EmptyDict))

ApplyScene(scene_id) ==
    IF scene_id \notin DOMAIN stored_data
    THEN ApplyNotFound(scene_id)
    ELSE ApplyStored(scene_id, stored_data[scene_id])

---------------------------------------------------------------------------
(* restore_scenes *)

\* the orders in which a loop may visit the elements of S
Orderings(S) ==
    {s \in [1..Cardinality(S) -> S] : \A i, j \in DOMAIN s : i # j => s[i] # s[j]}

\* a restoration that announces the first scene only
RestoreSignalsFirstOnly(order) ==
    IF order = <<>> THEN <<>> ELSE <<<<SCENE_ADDED, order[1]>>>>

\* one scene_added per scene id, in the order of the keys
RestoreSignals(order) == [i \in DOMAIN order |-> <<SCENE_ADDED, order[i]>>]

RestoreScenes ==
    /\ \E order \in Orderings(DOMAIN stored_data) : signals' = RestoreSignals(order)
    /\ calls' = NoCalls
    /\ last' = Op("restore", "", {}, None, FALSE, FALSE, FALSE)
    /\ UNCHANGED <<stored_data, persisted, hass_states, user_options>>

---------------------------------------------------------------------------
(* ResSceneOptionsFlow.async_step_init on a submitted form: the optional   *)
(* deletion, then the rename.  An absent form field (None) and the empty   *)
(* string are both falsy and are both written "".                          *)

\* rename_to.strip()
Strip(s) == CASE s = " evening " -> "evening" [] s = "  " -> "" [] OTHER -> s

\* the forms submitted: the deletion of any or no scene with a rename of the
\* second scene id to any name, and the rename of the first scene id to itself
OptionsForms ==
    {<<d, "away", t>> : d \in {"", "evening", "away"},
                        t \in {"", "  ", "evening", " evening ", "away"}}
        \cup {<<"", "evening", "evening">>, <<"", "", "evening">>}

\* a rename that never refuses its destination
RenameRejectedNever(scenes, rename_from, rename_to) == FALSE

\* rename_to in manager.stored_data and rename_to != rename_from
RenameRejected(scenes, rename_from, rename_to) ==
    rename_to \in DOMAIN scenes /\ rename_to # rename_from

\* manager.stored_data[rename_to] = manager.stored_data.pop(rename_from)
Renamed(scenes, rename_from, rename_to) ==
    (rename_to :> scenes[rename_from]) @@ Without(scenes, rename_from)

\* the stored map after the deletion async_step_init asks of delete_scene
AfterDelete(scenes, delete_id) ==
    IF delete_id # "" THEN Without(scenes, delete_id) ELSE scenes

\* the record of a submitted form: the fields as the step read them
OptionsOp(delete_id, rename_from, rename_to, saved) ==
    [op |-> "options", scene_id |-> rename_from, entities |-> {}, options |-> None,
     returned |-> FALSE, raised |-> FALSE, saved |-> saved,
     stored |-> stored_data, live |-> hass_states,
     delete_id |-> delete_id, rename_to |-> rename_to]

OptionsStepInit(delete_id, rename_from, rename_to_field) ==
    LET rename_to == Strip(rename_to_field)
        deleted == delete_id # "" /\ DeleteFinds(delete_id)
        scenes == AfterDelete(stored_data, delete_id)
        renames == /\ rename_from # "" /\ rename_to # ""
                   /\ rename_from \in DOMAIN scenes
                   /\ ~RenameRejected(scenes, rename_from, rename_to)
    IN  /\ stored_data' = IF renames THEN Renamed(scenes, rename_from, rename_to)
                          ELSE scenes
        /\ persisted' = IF renames \/ deleted THEN stored_data' ELSE persisted
        /\ signals' = (IF delete_id # "" THEN DeleteSignals(delete_id) ELSE <<>>)
                      \o (IF renames
                          THEN <<<<SCENE_REMOVED, rename_from>>, <<SCENE_ADDED, rename_to>>>>
                          ELSE <<>>)
        /\ calls' = NoCalls
        /\ last' = OptionsOp(delete_id, rename_from, rename_to, renames)
        /\ UNCHANGED <<hass_states, user_options>>

---------------------------------------------------------------------------
(* the environment: an entity reports another state, appears or disappears *)

StateChanged(eid) ==
    /\ \/ \E obj \in LiveObjects(eid) :
             /\ Get(hass_states, eid, None) # obj
             /\ hass_states' = (eid :> obj) @@ hass_states
       \/ /\ eid \in Removable \cap DOMAIN hass_states
          /\ hass_states' = Without(hass_states, eid)
    /\ UNCHANGED <<stored_data, persisted, user_options, calls, signals, last>>

---------------------------------------------------------------------------
(* An operation starts once the outcome of the one before has been read    *)
(* off: Return clears the log the operation left.                          *)

Idle == last.op = "none"

Return ==
    /\ ~Idle
    /\ calls' = NoCalls
    /\ signals' = <<>>
    /\ last' = NoOp
    /\ UNCHANGED <<stored_data, persisted, hass_states, user_options>>

Init ==
    /\ stored_data \in StoredDocs
    /\ persisted = stored_data
    /\ hass_states \in HassStates
    /\ user_options \in UserOptionChoices
    /\ calls = [e \in Entities |-> <<>>]
    /\ signals = <<>>
    /\ last = NoOp
    /\ held = EmptyDict /\ shared = {}
    /\ runs = EmptyDict /\ listeners = {} /\ inflight = {}
    /\ ops = EmptyDict /\ writes = <<>> /\ selectors = EmptyDict

Next ==
    \/ /\ Idle
       /\ \E req \in SaveRequests : SaveScene(req[1], req[2], req[3])
       /\ UNCHANGED <<callers, watching, platform>>
    \/ /\ Idle
       /\ \E scene_id \in SceneIds : DeleteScene(scene_id)
       /\ UNCHANGED <<callers, watching, platform>>
    \/ /\ Idle
       /\ \E scene_id \in SceneIds : ApplyScene(scene_id)
       /\ UNCHANGED <<callers, watching, platform>>
    \/ /\ Idle
       /\ \E eid \in Entities : StateChanged(eid)
       /\ UNCHANGED <<callers, watching, platform>>
    \/ /\ Idle
       /\ RestoreScenes
       /\ UNCHANGED <<callers, watching, platform>>
    \/ /\ Idle
       /\ \E form \in OptionsForms : OptionsStepInit(form[1], form[2], form[3])
       /\ UNCHANGED <<callers, watching, platform>>
    \/ /\ Return
       /\ UNCHANGED <<callers, watching, platform>>

Spec == Init /\ [][Next]_vars

---------------------------------------------------------------------------
(* set_user_options / get_user_options and the dicts their caller holds.   *)
(* A dict is an object: two references to the same object see each other's *)
(* changes.  deepcopy gives an equal dict that no reference held elsewhere *)
(* designates.                                                             *)

\* the references a caller may hold
Refs == {"o", "p"}

\* the option dicts a caller may build
OptionDicts ==
    {EmptyDict, [restore_light_attributes |-> TRUE], [restore_light_attributes |-> FALSE],
     [action_timeout |-> "5.0"],
     [restore_light_attributes |-> TRUE, action_timeout |-> "5.0"]}

\* the assignments d[k] = v a caller may make to a dict it holds
Assignments ==
    {[restore_light_attributes |-> TRUE], [restore_light_attributes |-> FALSE],
     [action_timeout |-> "5.0"], [action_timeout |-> "10.0"]}

\* an accessor that keeps or hands out the dict itself
SharedByReference(ref) == {ref}

\* deepcopy: the copy is an object of its own
SharedAfterCopy(ref) == {}

\* what the caller last did: `installed` is the value the argument of the last
\* set_user_options had when it was called, `got` the value the last
\* get_user_options returned
OptionsCall(op, ref, installed, got) ==
    [op |-> op, ref |-> ref, installed |-> installed, got |-> got]

SetUserOptions(ref) ==
    /\ ref \in DOMAIN held
    /\ user_options' = held[ref]
    /\ shared' = SharedAfterCopy(ref)
    /\ last' = OptionsCall("set_user_options", ref, held[ref], None)
    /\ UNCHANGED held

GetUserOptions(ref) ==
    /\ ref \notin DOMAIN held
    /\ held' = (ref :> user_options) @@ held
    /\ shared' = shared \cup SharedAfterCopy(ref)
    /\ last' = OptionsCall("get_user_options", ref, last.installed, user_options)
    /\ UNCHANGED user_options

\* the caller assigns to a dict it holds; every reference to the same object,
\* _user_options included, sees the assignment
CallerAssigns(ref, assignment) ==
    /\ ref \in DOMAIN held
    /\ held' = [r \in DOMAIN held |->
                   IF r = ref \/ {r, ref} \subseteq shared
                   THEN Update(held[r], assignment) ELSE held[r]]
    /\ user_options' = IF ref \in shared THEN Update(user_options, assignment)
                       ELSE user_options
    /\ last' = OptionsCall("assign", ref, last.installed, None)
    /\ UNCHANGED shared

\* the caller lets go of a dict
CallerDrops(ref) ==
    /\ ref \in DOMAIN held
    /\ held' = Without(held, ref)
    /\ shared' = shared \ {ref}
    /\ last' = OptionsCall("drop", ref, last.installed, None)
    /\ UNCHANGED user_options

\* ResSceneManager.__init__: no options yet; the caller holds one dict
OptionsInit ==
    /\ stored_data = EmptyDict /\ persisted = EmptyDict
    /\ hass_states = EmptyDict
    /\ user_options = EmptyDict
    /\ calls = EmptyDict /\ signals = <<>>
    /\ last = OptionsCall("none", "o", EmptyDict, None)
    /\ \E d \in OptionDicts : held = ("o" :> d)
    /\ shared = {}
    /\ runs = EmptyDict /\ listeners = {} /\ inflight = {}
    /\ ops = EmptyDict /\ writes = <<>> /\ selectors = EmptyDict

OptionsNext ==
    \/ /\ \E ref \in Refs : SetUserOptions(ref)
       /\ UNCHANGED <<stored_data, persisted, hass_states, calls, signals, watching, platform>>
    \/ /\ \E ref \in Refs : GetUserOptions(ref)
       /\ UNCHANGED <<stored_data, persisted, hass_states, calls, signals, watching, platform>>
    \/ /\ \E ref \in Refs, assignment \in Assignments : CallerAssigns(ref, assignment)
       /\ UNCHANGED <<stored_data, persisted, hass_states, calls, signals, watching, platform>>
    \/ /\ \E ref \in Refs : CallerDrops(ref)
       /\ UNCHANGED <<stored_data, persisted, hass_states, calls, signals, watching, platform>>

OptionsSpec == OptionsInit /\ [][OptionsNext]_vars

---------------------------------------------------------------------------
(* The round trip: save_scene into an empty store, then apply_scene of the *)
(* scene just saved, with no step of the environment in between.           *)

Climate == <<"climate", 1>>
Cover == <<"cover", 1>>
RoundTripEntities == {Light, Switch, Climate, Cover}

\* the State objects the entities of the round trip may have when it starts
RoundTripObjects(eid) ==
    CASE eid = Climate -> {StateObj("off", [temperature |-> Null]),
                           StateObj("heat", [temperature |-> "21.5"])}
      [] eid = Cover -> {StateObj("open", EmptyDict), StateObj("opening", EmptyDict)}
      [] eid = Light -> {Reported(Light, STATE_ON), Reported(Light, STATE_OFF)}
      [] OTHER -> {Reported(eid, STATE_ON), Reported(eid, STATE_UNAVAILABLE)}

RoundTripStates ==
    {h \in [RoundTripEntities -> UNION {RoundTripObjects(e) : e \in RoundTripEntities}] :
        \A e \in RoundTripEntities : h[e] \in RoundTripObjects(e)}

\* the status a command of apply_state asks its entity to take; Null for a
\* command that sets an attribute only
ServiceTarget(c) ==
    CASE c.service = SERVICE_TURN_ON -> STATE_ON
      [] c.service = SERVICE_TURN_OFF -> STATE_OFF
      [] c.service = "open_cover" -> "open"
      [] c.service = "close_cover" -> "closed"
      [] c.service = "set_cover_position" ->
            IF c.data.position = "0" THEN "closed" ELSE "open"
      [] c.service = "set_temperature" -> c.data.hvac_mode
      [] c.service = "lock" -> "locked"
      [] c.service = "unlock" -> "unlocked"
      [] c.service = "media_play" -> "playing"
      [] c.service = "media_pause" -> "paused"
      [] c.service = "media_stop" -> "idle"
      [] c.service = "select_option" -> c.data.option
      [] c.service = "set_value" -> c.data.value
      [] OTHER -> Null

\* the status the commands of `log`, carried out in order, leave the entity in;
\* Null when none of them sets a status
StatusAsked(log) ==
    LET setting == {i \in DOMAIN log : ServiceTarget(log[i]) # Null}
    IN  IF setting = {} THEN Null
        ELSE ServiceTarget(log[CHOOSE i \in setting : \A j \in setting : j <= i])

RoundTripInit ==
    /\ stored_data = EmptyDict /\ persisted = EmptyDict
    /\ hass_states \in RoundTripStates
    /\ user_options \in {[restore_light_attributes |-> FALSE],
                         [restore_light_attributes |-> TRUE]}
    /\ calls = [e \in RoundTripEntities |-> <<>>]
    /\ signals = <<>>
    /\ last = NoOp
    /\ held = EmptyDict /\ shared = {}
    /\ runs = EmptyDict /\ listeners = {} /\ inflight = {}
    /\ ops = EmptyDict /\ writes = <<>> /\ selectors = EmptyDict

RoundTripNext ==
    \/ /\ last.op = "none"
       /\ \E E \in SUBSET RoundTripEntities : SaveScene("evening", E, EmptyDict)
       /\ UNCHANGED <<callers, watching, platform>>
    \/ /\ last.op = "save" /\ ~last.raised
       /\ ApplyScene(last.scene_id)
       /\ UNCHANGED <<callers, watching, platform>>

RoundTripSpec == RoundTripInit /\ [][RoundTripNext]_vars

---------------------------------------------------------------------------
(* async_call_and_wait_state step by step, under the coroutines that chain *)
(* its watches: snapshot_light of a save_scene (through                    *)
(* async_run_actions_sequentially) and the light branch of the apply_state *)
(* of an apply_scene, both running on the one event loop.                  *)

Light2 == <<"light", 2>>
WatchedEntities == {Light, Light2}
RunIds == {1, 2}

\* the statuses a watched light may take for a reason of its own
WatchedStatuses == {STATE_UNAVAILABLE}

\* a future that is not done
Pending == [pending |-> TRUE]

\* a callback that takes any notification for the awaited one
QualifiesAny(expected, new_value) == TRUE

\* the test of _state_changed: the wait goes on unless the new state is the
\* expected one, when one is expected
Qualifies(expected, new_value) == expected = Null \/ new_value = expected

\* a subscription to the state changes of every entity
ListensAll(l, eid) == TRUE

\* async_track_state_change_event(hass, [entity_id], ...): the changes of eid reach l
Listens(l, eid) == l.entity_id = eid

\* the result _state_changed sets; `by` is the run whose command made the change
\* (0 for a change from elsewhere), `step` the step of its run the watch serves
MatchedResult(run, old_value, new_value, by) ==
    [entity_id |-> run.entity_id, old_value |-> old_value, new_value |-> new_value,
     matched |-> IF run.actions[run.i].expected = Null THEN TRUE
                 ELSE new_value = run.actions[run.i].expected,
     timeout |-> FALSE, by |-> by, step |-> run.i]

\* the result built on asyncio.TimeoutError
TimeoutResult(run) ==
    [entity_id |-> run.entity_id, old_value |-> Null, new_value |-> Null,
     matched |-> FALSE, timeout |-> TRUE, by |-> 0, step |-> run.i]

\* a coroutine at its first watch: `sent` lists the steps whose command it has
\* issued, `heard` the notifications the callback of its latest watch received,
\* `since` the statuses its entity took after the command of that watch was issued
Run(caller, entity_id, actions) ==
    [caller |-> caller, entity_id |-> entity_id, actions |-> actions, i |-> 1,
     pc |-> "start", future |-> Pending, results |-> <<>>, sent |-> <<>>,
     heard |-> {}, since |-> {}]

\* the subscription of the current watch of run t
Subscription(t) == [run |-> t, step |-> runs[t].i, entity_id |-> runs[t].entity_id]

\* the watch of l has not returned
Active(l) == runs[l.run].i = l.step /\ runs[l.run].pc \in {"registered", "waiting"}

\* a result list that leaves out the watches that timed out
AppendedUnlessTimeout(results, result) ==
    IF result.timeout THEN results ELSE Append(results, result)

\* results.append(result)
Appended(results, result) == Append(results, result)

\* future = create_future(); remove_listener = async_track_state_change_event(...)
Register(t) ==
    /\ runs[t].pc = "start"
    /\ listeners' = listeners \cup {Subscription(t)}
    /\ runs' = [runs EXCEPT ![t].pc = "registered", ![t].future = Pending,
                            ![t].heard = {}, ![t].since = {}]
    /\ UNCHANGED <<inflight, hass_states>>

\* await hass.services.async_call(..., blocking=False) returns: the command is
\* accepted
CallReturns(t) ==
    /\ runs[t].pc = "registered"
    /\ inflight' = inflight \cup
           {[run |-> t, step |-> runs[t].i, entity_id |-> runs[t].entity_id,
             service |-> runs[t].actions[runs[t].i].service]}
    /\ runs' = [runs EXCEPT ![t].pc = "waiting",
                            ![t].sent = Append(runs[t].sent, runs[t].i)]
    /\ UNCHANGED <<listeners, hass_states>>

\* await hass.services.async_call(...) raises: the exception leaves
\* async_call_and_wait_state and the coroutines above it
CallRaises(t) ==
    /\ runs[t].pc = "registered"
    /\ runs' = [runs EXCEPT ![t].pc = "raised"]
    /\ UNCHANGED <<listeners, inflight, hass_states>>

\* a callback that sets the result whether or not the future already has one
FutureSettableAlways(future) == TRUE

\* if not future.done(): the future has no result yet
FutureSettable(future) == future = Pending

\* a state_changed event of eid: _state_changed runs for every subscription it
\* reaches
Notified(eid, old_value, new_value, by) ==
    [t \in DOMAIN runs |->
        LET run == runs[t]
            reached == \E l \in listeners :
                           l.run = t /\ Active(l) /\ Listens(l, eid)
            heard == run.heard \cup {<<eid, new_value>>}
        IN  [run EXCEPT
               !.heard = IF reached THEN heard ELSE @,
               !.since = IF run.pc = "waiting" /\ run.entity_id = eid
                         THEN @ \cup {new_value} ELSE @,
               !.future = IF /\ reached
                             /\ Qualifies(run.actions[run.i].expected, new_value)
                             /\ FutureSettable(@)
                          THEN MatchedResult(run, old_value, new_value, by)
                          ELSE @]]

\* the device carries out an accepted command; a command that leaves the status
\* as it is may still change attributes and so fire an event, or fire none
DeviceActs(c) ==
    /\ c \in inflight
    /\ inflight' = inflight \ {c}
    /\ LET old_value == hass_states[c.entity_id].state
           new_value == ServiceTarget(c)
       IN  \/ /\ hass_states' = [hass_states EXCEPT
                                    ![c.entity_id] = Reported(c.entity_id, new_value)]
              /\ runs' = Notified(c.entity_id, old_value, new_value, c.run)
           \/ /\ old_value = new_value
              /\ UNCHANGED <<hass_states, runs>>
    /\ UNCHANGED listeners

\* the entity changes status for a reason of its own
ExternalChange(eid, new_value) ==
    /\ new_value # hass_states[eid].state
    /\ hass_states' = [hass_states EXCEPT ![eid] = Reported(eid, new_value)]
    /\ runs' = Notified(eid, hass_states[eid].state, new_value, 0)
    /\ UNCHANGED <<listeners, inflight>>

\* a sequence that gives up once a watch has timed out
AfterWatchStopOnTimeout(run, result) ==
    IF run.i = Len(run.actions) \/ result.timeout THEN "done" ELSE "start"

\* for action in actions: whatever the result of a watch, the loop goes on to
\* the next action and returns after the last one
AfterWatch(run, result) == IF run.i = Len(run.actions) THEN "done" ELSE "start"

\* the watch returns `result`: finally remove_listener(), the result is appended
\* and the coroutine goes on to its next step
Returns(t, result) ==
    /\ listeners' = listeners \ {Subscription(t)}
    /\ runs' = [runs EXCEPT
                  ![t].results = Appended(runs[t].results, result),
                  ![t].i = @ + 1,
                  ![t].since = {},
                  ![t].pc = AfterWatch(runs[t], result)]
    /\ UNCHANGED <<inflight, hass_states>>

\* asyncio.wait_for(future, timeout) returns the result of the future
Resume(t) ==
    /\ runs[t].pc = "waiting"
    /\ runs[t].future # Pending
    /\ Returns(t, runs[t].future)

\* a wait that no timeout ever ends
TimesOutNever(timeout) == FALSE

\* asyncio.wait_for(future, timeout) can time out: a timeout of None waits for
\* the future without limit
TimesOut(timeout) == timeout # Null

\* asyncio.wait_for(future, timeout) raises asyncio.TimeoutError
Timeout(t) ==
    /\ runs[t].pc = "waiting"
    /\ runs[t].future = Pending
    /\ TimesOut(runs[t].actions[runs[t].i].timeout)
    /\ Returns(t, TimeoutResult(runs[t]))

\* the watches apply_state chains for a light, by saved state and option
ApplyLightPrograms(eid) ==
    {LightSteps(eid, state, EmptyDict, [restore_light_attributes |-> restore]) :
        state \in {STATE_ON, STATE_OFF}, restore \in BOOLEAN}

\* run 1 is the snapshot_light of a save_scene, started on a light that is off;
\* run 2 is the apply_state of an apply_scene for a light
WatchInit ==
    /\ stored_data = EmptyDict /\ persisted = EmptyDict
    /\ user_options = EmptyDict
    /\ calls = EmptyDict /\ signals = <<>> /\ last = NoOp
    /\ held = EmptyDict /\ shared = {}
    /\ \E status \in {STATE_ON, STATE_OFF} :
          hass_states = (Light :> Reported(Light, STATE_OFF))
                        @@ (Light2 :> Reported(Light2, status))
    /\ \E e2 \in WatchedEntities :
         \E actions \in ApplyLightPrograms(e2) :
            runs = (1 :> Run("save_scene", Light,
                                  SnapshotLightSteps(Light, ACTION_TIMEOUT_DEFAULT)))
                   @@ (2 :> Run("apply_scene", e2, actions))
    /\ listeners = {} /\ inflight = {}
    /\ ops = EmptyDict /\ writes = <<>> /\ selectors = EmptyDict

WatchNext ==
    \/ /\ \E t \in RunIds : Register(t)
       /\ UNCHANGED <<stored_data, persisted, user_options, calls, signals, last, callers, platform>>
    \/ /\ \E t \in RunIds : CallReturns(t)
       /\ UNCHANGED <<stored_data, persisted, user_options, calls, signals, last, callers, platform>>
    \/ /\ \E t \in RunIds : CallRaises(t)
       /\ UNCHANGED <<stored_data, persisted, user_options, calls, signals, last, callers, platform>>
    \/ /\ \E c \in inflight : DeviceActs(c)
       /\ UNCHANGED <<stored_data, persisted, user_options, calls, signals, last, callers, platform>>
    \/ /\ \E eid \in WatchedEntities, new_value \in WatchedStatuses :
             ExternalChange(eid, new_value)
       /\ UNCHANGED <<stored_data, persisted, user_options, calls, signals, last, callers, platform>>
    \/ /\ \E t \in RunIds : Resume(t)
       /\ UNCHANGED <<stored_data, persisted, user_options, calls, signals, last, callers, platform>>
    \/ /\ \E t \in RunIds : Timeout(t)
       /\ UNCHANGED <<stored_data, persisted, user_options, calls, signals, last, callers, platform>>

WatchSpec == WatchInit /\ [][WatchNext]_vars

\* the watches a caller of async_call_and_wait_state may ask for on a light with
\* no expected status
AnyChangeWatches(eid) ==
    { <<Watch("light", SERVICE_TURN_ON, [transition |-> 0], Null, ACTION_TIMEOUT_DEFAULT)>>,
      <<Watch("light", SERVICE_TURN_OFF, [transition |-> 0], Null, ACTION_TIMEOUT_DEFAULT),
        Watch("light", SERVICE_TURN_ON, [transition |-> 0], Null, ACTION_TIMEOUT_DEFAULT)>> }

\* and with the status the service leads to
ExpectedWatches(eid) ==
    { <<Watch("light", SERVICE_TURN_ON, [transition |-> 0], STATE_ON, ACTION_TIMEOUT_DEFAULT)>>,
      <<Watch("light", SERVICE_TURN_OFF, [transition |-> 0], STATE_OFF, ACTION_TIMEOUT_DEFAULT)>> }

\* two callers of async_run_actions_sequentially watch the same light
DirectInit ==
    /\ stored_data = EmptyDict /\ persisted = EmptyDict
    /\ user_options = EmptyDict
    /\ calls = EmptyDict /\ signals = <<>> /\ last = NoOp
    /\ held = EmptyDict /\ shared = {}
    /\ \E status \in {STATE_ON, STATE_OFF} :
          hass_states = (Light :> Reported(Light, status))
                        @@ (Light2 :> Reported(Light2, STATE_OFF))
    /\ \E a1 \in AnyChangeWatches(Light), a2 \in ExpectedWatches(Light) :
          runs = (1 :> Run("async_run_actions_sequentially", Light, a1))
                 @@ (2 :> Run("async_run_actions_sequentially", Light, a2))
    /\ listeners = {} /\ inflight = {}
    /\ ops = EmptyDict /\ writes = <<>> /\ selectors = EmptyDict

DirectSpec == DirectInit /\ [][WatchNext]_vars

\* the elicitation of a save_scene on one light and the apply_state of an
\* apply_scene on another, each with two watches
ReturnInit ==
    /\ stored_data = EmptyDict /\ persisted = EmptyDict
    /\ user_options = EmptyDict
    /\ calls = EmptyDict /\ signals = <<>> /\ last = NoOp
    /\ held = EmptyDict /\ shared = {}
    /\ hass_states = (Light :> Reported(Light, STATE_OFF))
                      @@ (Light2 :> Reported(Light2, STATE_ON))
    /\ runs = (1 :> Run("save_scene", Light,
                        SnapshotLightSteps(Light, ACTION_TIMEOUT_DEFAULT)))
              @@ (2 :> Run("apply_scene", Light2,
                           LightSteps(Light2, STATE_OFF, EmptyDict,
                                      [restore_light_attributes |-> TRUE])))
    /\ listeners = {} /\ inflight = {}
    /\ ops = EmptyDict /\ writes = <<>> /\ selectors = EmptyDict

\* the event loop runs coroutine t on: it registers, its service call returns or
\* raises, its wait resumes with the result or ends at the timeout
RunStep(t) ==
    /\ Register(t) \/ CallReturns(t) \/ CallRaises(t) \/ Resume(t) \/ Timeout(t)
    /\ UNCHANGED <<stored_data, persisted, user_options, calls, signals, last, callers, platform>>

\* every coroutine that can run eventually does; nothing obliges a device to act
\* or a state change to be notified
ReturnSpec ==
    ReturnInit /\ [][WatchNext]_vars /\ \A t \in RunIds : WF_vars(RunStep(t))

---------------------------------------------------------------------------
(* apply_scene on the scenes a store may hold: lights with the attribute     *)
(* combinations of the colour modes, the domains restored through            *)
(* call_service, every form of the "_options" entry, and targets that are    *)
(* usable, unavailable, unknown or absent.                                   *)

Lock == <<"lock", 1>>
MediaPlayer == <<"media_player", 1>>
ApplyEntities == {Light, Switch, Sensor, Climate, Cover, Lock, MediaPlayer}

RgbAttrs ==
    [color_mode |-> "rgb", rgb_color |-> "1,2,3", brightness |-> "10",
     brightness_pct |-> "50"]

\* the entries a stored scene may hold for eid
ApplyInfos(eid) ==
    CASE eid = Light ->
            { StateObj(STATE_OFF, [brightness |-> "40"]),
              StateObj(STATE_OFF, RgbAttrs),
              StateObj(STATE_ON, RgbAttrs),
              StateObj(STATE_ON, [color_mode |-> "color_temp", color_temp |-> "300",
                                  color_temp_kelvin |-> "3333", brightness |-> "10",
                                  hs_color |-> "1,2"]),
              StateObj(STATE_ON, [color_mode |-> "strobe", brightness |-> "10",
                                  effect |-> "rainbow"]),
              StateObj(STATE_ON, [profile |-> "relax", color_mode |-> "rgb",
                                  rgb_color |-> "1,2,3", brightness_pct |-> "50"]),
              StateObj(STATE_ON, [white |-> "200", color_mode |-> "rgb",
                                  rgb_color |-> "1,2,3", brightness |-> "10"]),
              StateObj(STATE_ON, [brightness |-> Null, color_mode |-> "onoff",
                                  flash |-> "short"]),
              StateObj(STATE_ON, [brightness_pct |-> "50", xy_color |-> "0.3,0.3",
                                  color_temp |-> "300"]),
              StateObj(STATE_OFF, [color_mode |-> Null, brightness |-> Null,
                                   color_temp_kelvin |-> "3333"]) }
      [] eid = Climate ->
            { StateObj("heat", [temperature |-> "21.5"]),
              StateObj("cool", EmptyDict),
              StateObj("off", [temperature |-> Null, fan_mode |-> "low"]),
              StateObj("heat_cool", [target_temp_low |-> "18", target_temp_high |-> "24",
                                     swing_mode |-> "on", humidity |-> "40"]),
              StateObj("heat_cool", [temperature |-> "21.5", preset_mode |-> "eco"]),
              StateObj("", [temperature |-> "21.5"]) }
      [] eid = Cover ->
            { StateObj("open", EmptyDict),
              StateObj("closed", [position |-> Null]),
              StateObj("opening", EmptyDict),
              StateObj("open", [position |-> "70"]),
              StateObj("open", [position |-> "70", tilt_position |-> "30"]) }
      [] eid = Lock ->
            { StateObj("locked", EmptyDict), StateObj("jammed", EmptyDict) }
      [] eid = MediaPlayer ->
            { StateObj("playing", [volume_level |-> "0.4", source |-> "tv"]),
              StateObj("paused", [volume_level |-> "0.4"]),
              StateObj("standby", [volume_level |-> "0.4"]) }
      [] eid = Sensor -> { StateObj("19.0", EmptyDict) }
      [] OTHER -> { StateObj(STATE_ON, EmptyDict), StateObj(STATE_OFF, EmptyDict) }

\* the values a stored scene may hold under "_options"
SavedOptionValues ==
    { [restore_light_attributes |-> TRUE],
      [restore_light_attributes |-> FALSE],
      [action_timeout |-> "10.0"],
      [restore_light_attributes |-> TRUE, action_timeout |-> "10.0"],
      EmptyDict, None, ListOf(<<>>), ListOf(<<"restore_light_attributes">>) }

\* the stored scenes: one entity, alone or beside a switch saved "on"; a light
\* scene with or without an "_options" entry
ApplyScenes ==
    { (eid :> info) @@ beside @@ overlay :
        eid \in ApplyEntities \ {Switch},
        info \in UNION {ApplyInfos(e) : e \in ApplyEntities},
        beside \in {EmptyDict, (Switch :> StateObj(STATE_ON, EmptyDict))},
        overlay \in {EmptyDict} \cup {(OPTIONS_KEY :> v) : v \in SavedOptionValues} }

\* the scene holds for its entity one of the entries of that entity, and an
\* "_options" entry only next to a light
WellFormedScene(scene) ==
    /\ \A eid \in DOMAIN scene \ {OPTIONS_KEY} : scene[eid] \in ApplyInfos(eid)
    /\ OPTIONS_KEY \in DOMAIN scene => Light \in DOMAIN scene

\* the global options in force during an apply
ApplyUserOptions ==
    { EmptyDict,
      [restore_light_attributes |-> TRUE],
      [restore_light_attributes |-> FALSE, action_timeout |-> "5.0"] }

\* a status with which eid is usable
UsableStatus(eid) ==
    CASE eid = Climate -> "heat" [] eid = Cover -> "open" [] eid = Lock -> "locked"
      [] eid = MediaPlayer -> "idle" [] eid = Sensor -> "21.5" [] OTHER -> STATE_ON

\* the contents of the state source: the switch is usable, any other entity is
\* usable, unavailable, unknown or absent
ApplyStates(scene) ==
    LET eids == DOMAIN scene \ {OPTIONS_KEY, Switch}
        base == (Switch :> Reported(Switch, STATE_ON))
    IN  {base} \cup
        UNION {{(eid :> Reported(eid, st)) @@ base :
                    st \in {UsableStatus(eid), STATE_UNAVAILABLE, STATE_UNKNOWN}}
               : eid \in eids}

ApplyInit ==
    /\ \E scene \in {c \in ApplyScenes : WellFormedScene(c)} :
          /\ stored_data = ("evening" :> scene)
          /\ hass_states \in ApplyStates(scene)
    /\ persisted = stored_data
    /\ user_options \in ApplyUserOptions
    /\ calls = [e \in ApplyEntities |-> <<>>]
    /\ signals = <<>>
    /\ last = NoOp
    /\ held = EmptyDict /\ shared = {}
    /\ runs = EmptyDict /\ listeners = {} /\ inflight = {}
    /\ ops = EmptyDict /\ writes = <<>> /\ selectors = EmptyDict

ApplyNext ==
    /\ last.op = "none"
    /\ \E scene_id \in SceneIds : ApplyScene(scene_id)
    /\ UNCHANGED <<callers, watching, platform>>

ApplySpec == ApplyInit /\ [][ApplyNext]_vars

---------------------------------------------------------------------------
(* save_scene and delete_scene called concurrently on one scene id: each     *)
(* changes the stored map, waits in store.async_save, and only then sends    *)
(* its signal.                                                                *)

CallIds == {1, 2, 3}

\* the calls store.async_save may return to next: the manager holds no lock of
\* its own across the await, so the order of the returns is the store's to choose
WriteNext(queue) == {queue[i] : i \in DOMAIN queue}

\* a call enters store.async_save(self.stored_data) and waits there
EntersStore(c) ==
    /\ persisted' = stored_data'
    /\ writes' = Append(writes, c)
    /\ ops' = [ops EXCEPT ![c].pc = "writing"]

\* save_scene: self.stored_data[scene_id] = states; await self.store.async_save
SaveStores(c) ==
    /\ ops[c].pc = "start" /\ ops[c].op = "save"
    /\ stored_data' = StoreScene(ops[c].scene_id, (Switch :> StateObj(STATE_ON, EmptyDict)))
    /\ EntersStore(c)
    /\ UNCHANGED signals

\* delete_scene on a stored id: del self.stored_data[scene_id]; await async_save
DeleteRemoves(c) ==
    /\ ops[c].pc = "start" /\ ops[c].op = "delete"
    /\ ops[c].scene_id \in DOMAIN stored_data
    /\ stored_data' = Without(stored_data, ops[c].scene_id)
    /\ EntersStore(c)
    /\ UNCHANGED signals

\* delete_scene on an id that is not stored: the signal is sent at once
DeleteMisses(c) ==
    /\ ops[c].pc = "start" /\ ops[c].op = "delete"
    /\ ops[c].scene_id \notin DOMAIN stored_data
    /\ signals' = Append(signals, <<SCENE_REMOVED, ops[c].scene_id>>)
    /\ ops' = [ops EXCEPT ![c].pc = "done"]
    /\ UNCHANGED <<stored_data, persisted, writes>>

\* store.async_save returns to call c, which sends its signal and ends
WriteReturns(c) ==
    /\ c \in WriteNext(writes)
    /\ writes' = SelectSeq(writes, LAMBDA x : x # c)
    /\ signals' = Append(signals,
                         <<IF ops[c].op = "save" THEN SCENE_ADDED ELSE SCENE_REMOVED,
                           ops[c].scene_id>>)
    /\ ops' = [ops EXCEPT ![c].pc = "done"]
    /\ UNCHANGED <<stored_data, persisted>>

RaceInit ==
    /\ stored_data \in {EmptyDict, ("evening" :> (Switch :> StateObj(STATE_OFF, EmptyDict)))}
    /\ persisted = stored_data
    /\ hass_states = (Switch :> Reported(Switch, STATE_ON))
    /\ user_options = EmptyDict
    /\ calls = EmptyDict /\ signals = <<>> /\ last = NoOp
    /\ held = EmptyDict /\ shared = {}
    /\ runs = EmptyDict /\ listeners = {} /\ inflight = {}
    /\ ops \in [CallIds -> {[op |-> op, scene_id |-> "evening", pc |-> "start"] :
                                op \in {"save", "delete"}}]
    /\ writes = <<>> /\ selectors = EmptyDict

RaceNext ==
    \/ /\ \E c \in CallIds : SaveStores(c)
       /\ UNCHANGED <<hass_states, user_options, calls, last, callers, watching, selectors>>
    \/ /\ \E c \in CallIds : DeleteRemoves(c)
       /\ UNCHANGED <<hass_states, user_options, calls, last, callers, watching, selectors>>
    \/ /\ \E c \in CallIds : DeleteMisses(c)
       /\ UNCHANGED <<hass_states, user_options, calls, last, callers, watching, selectors>>
    \/ /\ \E c \in CallIds : WriteReturns(c)
       /\ UNCHANGED <<hass_states, user_options, calls, last, callers, watching, selectors>>

RaceSpec == RaceInit /\ [][RaceNext]_vars

---------------------------------------------------------------------------
(* The two selectors of select.py: scene_update refreshes both on every     *)
(* scene_added and scene_removed, the user selects one of the listed        *)
(* options.                                                                 *)

\* the first option of the apply selector
PLACEHOLDER == "Apply scene"

\* ResSceneSelector.__init__: no options, no current option
NewSelector == [options |-> <<>>, current |-> Null, json |-> Null]

\* the text json.dumps makes of to_json_safe(scene)
JsonOf(scene) == [json |-> scene]

\* a selection that applies whatever the apply selector is given
SelectAppliesAny(do_apply, option) == do_apply

\* async_select_option calls manager.apply_scene(option)
SelectApplies(do_apply, option) == do_apply /\ option # PLACEHOLDER

\* the selector once async_select_option(option) has set its fields
Selected(do_apply, selector, option) ==
    [selector EXCEPT !.current = option,
                     !.json = IF do_apply THEN @ ELSE JsonOf(Get(stored_data, option, EmptyDict))]

\* scenes = (["Apply scene"] if self._do_apply else []) + list(stored_data.keys())
Scenes(do_apply, keys) == (IF do_apply THEN <<PLACEHOLDER>> ELSE <<>>) \o keys

\* the current option is not in scenes: async_update_options selects scenes[0]
FallsBack(selector, scenes) ==
    scenes # <<>> /\ selector.current \notin {scenes[i] : i \in DOMAIN scenes}

\* the selector once async_update_options has set its fields
Updated(do_apply, selector, scenes) ==
    LET listed == [selector EXCEPT !.options = scenes]
    IN  IF FallsBack(selector, scenes) THEN Selected(do_apply, listed, scenes[1])
        ELSE IF scenes = <<>> THEN [listed EXCEPT !.current = Null]
        ELSE listed

\* what a refresh or a selection that applied nothing leaves in the log
SelectorOp(op, option) ==
    Op(op, option, {}, None, FALSE, FALSE, FALSE) @@ [prior |-> selectors]

\* scene_update: async_update_options of the apply selector, then of the JSON
\* selector, with the apply_scene a fallback selection calls; the keys come in
\* the order of the dict, which is any order here
SceneUpdate ==
    /\ signals # <<>>
    /\ \E keys \in Orderings(DOMAIN stored_data) :
          LET scenes == [d \in BOOLEAN |-> Scenes(d, keys)]
              applying == {d \in BOOLEAN :
                              /\ FallsBack(selectors[d], scenes[d])
                              /\ SelectApplies(d, scenes[d][1])}
          IN  /\ selectors' = [d \in BOOLEAN |-> Updated(d, selectors[d], scenes[d])]
              /\ IF applying # {}
                 THEN \E d \in applying : ApplyScene(scenes[d][1])
                 ELSE /\ last' = SelectorOp("refresh", signals[1][2])
                      /\ signals' = Tail(signals)
                      /\ UNCHANGED <<stored_data, persisted, hass_states,
                                     user_options, calls>>
    /\ UNCHANGED <<callers, watching, ops, writes>>

\* async_select_option(option), called by the select_option service with one
\* of the listed options
SelectOption(do_apply, option) ==
    /\ option \in {selectors[do_apply].options[i] : i \in DOMAIN selectors[do_apply].options}
    /\ selectors' = [selectors EXCEPT ![do_apply] = Selected(do_apply, @, option)]
    /\ IF SelectApplies(do_apply, option)
       THEN ApplyScene(option)
       ELSE /\ last' = SelectorOp("select", option)
            /\ UNCHANGED <<stored_data, persisted, hass_states, user_options,
                           calls, signals>>
    /\ UNCHANGED <<callers, watching, ops, writes>>

SelectInit ==
    /\ stored_data = EmptyDict /\ persisted = EmptyDict
    /\ hass_states \in {(Switch :> Reported(Switch, st)) : st \in {STATE_ON, STATE_OFF}}
    /\ user_options = EmptyDict
    /\ calls = (Switch :> <<>>) /\ signals = <<>> /\ last = NoOp
    /\ held = EmptyDict /\ shared = {}
    /\ runs = EmptyDict /\ listeners = {} /\ inflight = {}
    /\ ops = EmptyDict /\ writes = <<>>
    /\ selectors = [d \in BOOLEAN |-> NewSelector]

\* the signal of a save_scene or delete_scene is handled before anything else
SelectNext ==
    \/ /\ Idle
       /\ \E scene_id \in SceneIds : SaveScene(scene_id, {Switch}, EmptyDict)
       /\ UNCHANGED <<callers, watching, platform>>
    \/ /\ Idle
       /\ \E scene_id \in SceneIds : DeleteScene(scene_id)
       /\ UNCHANGED <<callers, watching, platform>>
    \/ SceneUpdate
    \/ /\ Idle
       /\ \E d \in BOOLEAN, option \in SceneIds \cup {PLACEHOLDER} : SelectOption(d, option)
    \/ /\ signals = <<>>
       /\ Return
       /\ UNCHANGED <<callers, watching, platform>>

SelectSpec == SelectInit /\ [][SelectNext]_vars

---------------------------------------------------------------------------
(* The create service of __init__.py: the handler checks the scene id,       *)
(* expands areas and labels through the entity registry, keeps the entities  *)
(* the state source knows and calls save_scene.                              *)

\* the entity registry: the light is in the hall, the switch and the sensor
\* carry the label "night"
Registry ==
    { [entity_id |-> Light, area_id |-> "hall", labels |-> {}],
      [entity_id |-> Switch, area_id |-> Null, labels |-> {"night"}],
      [entity_id |-> Sensor, area_id |-> "attic", labels |-> {"night", "upstairs"}] }

\* the data of a call of the create service
CreateCalls ==
    [scene_id : {"", "evening"},
     snapshot_entities : SUBSET {Light, Switch},
     snapshot_areas : SUBSET {"hall"},
     snapshot_labels : SUBSET {"night"},
     options : {EmptyDict, [restore_light_attributes |-> TRUE]}]

\* snapshot_entities with the entities of the areas and of the labels
Expanded(data) ==
    data.snapshot_entities
    \cup {r.entity_id : r \in {r \in Registry : r.area_id \in data.snapshot_areas}}
    \cup {r.entity_id : r \in {r \in Registry : r.labels \cap data.snapshot_labels # {}}}

\* if states.get(entity_id) is not None
Valid(entities) == entities \cap DOMAIN hass_states

\* a handler that checks the scene id only
CreateErrorIdOnly(scene_id, entities) ==
    IF scene_id = "" THEN "no_scene_id" ELSE Null

\* the HomeAssistantError the handler raises, if any
CreateError(scene_id, entities) ==
    IF scene_id = "" THEN "no_scene_id"
    ELSE IF entities = {} THEN "no_valid_entities"
    ELSE Null

\* {key: call.data.get(key, default) for key, default in manager._user_options.items()}
ServiceOptions(data) ==
    [key \in DOMAIN user_options |-> Get(data.options, key, user_options[key])]

\* a call of the create service arrives
CreateCalled ==
    /\ Idle /\ ops = EmptyDict
    /\ \E data \in CreateCalls : ops' = (1 :> [op |-> "create", data |-> data, pc |-> "start"])
    /\ UNCHANGED <<stored_data, persisted, hass_states, user_options, calls, signals,
                   last, callers, watching, writes, selectors>>

\* the handler save_scene(call)
CreateHandled ==
    /\ 1 \in DOMAIN ops /\ ops[1].pc = "start"
    /\ LET data == ops[1].data
           snapshot_entities == Valid(Expanded(data))
           error == CreateError(data.scene_id, snapshot_entities)
       IN  IF error # Null
           THEN /\ ops' = [ops EXCEPT ![1].pc = error]
                /\ last' = Op("create", data.scene_id, snapshot_entities, None,
                              FALSE, TRUE, FALSE)
                /\ UNCHANGED <<stored_data, persisted, hass_states, user_options,
                               calls, signals>>
           ELSE /\ SaveScene(data.scene_id, snapshot_entities, ServiceOptions(data))
                /\ ops' = [ops EXCEPT ![1].pc = IF last'.raised THEN "raised" ELSE "done"]
    /\ UNCHANGED <<callers, watching, writes, selectors>>

\* the outcome of the call has been read off
CreateReturn ==
    /\ Return
    /\ ops' = EmptyDict
    /\ UNCHANGED <<callers, watching, writes, selectors>>

\* the manager holds the option async_setup_entry gave it; the light, if the
\* state source knows it, is on or off, and the sensor has no state
CreateInit ==
    /\ stored_data \in {EmptyDict, ("evening" :> (Switch :> StateObj(STATE_OFF, EmptyDict)))}
    /\ persisted = stored_data
    /\ hass_states \in
          {light @@ switch :
              light \in {EmptyDict} \cup {(Light :> Reported(Light, st)) : st \in {STATE_ON, STATE_OFF}},
              switch \in {EmptyDict, (Switch :> Reported(Switch, STATE_ON))}}
    /\ user_options = [restore_light_attributes |-> FALSE]
    /\ calls = [e \in {Light, Switch, Sensor} |-> <<>>]
    /\ signals = <<>> /\ last = NoOp
    /\ held = EmptyDict /\ shared = {}
    /\ runs = EmptyDict /\ listeners = {} /\ inflight = {}
    /\ ops = EmptyDict /\ writes = <<>> /\ selectors = EmptyDict

CreateNext == CreateCalled \/ CreateHandled \/ CreateReturn

CreateSpec == CreateInit /\ [][CreateNext]_vars

---------------------------------------------------------------------------
(* Properties *)

\* the entity entries of a scene: its keys but the reserved "_options"
EntityKeys(scene) == DOMAIN scene \ {OPTIONS_KEY}

HasOutcome(log, outcome) == \E i \in DOMAIN log : log[i].outcome = outcome

\* the last operation is an apply_scene of a stored scene / a save_scene that
\* completed
AppliedStored == last.op = "apply" /\ last.scene_id \in DOMAIN last.stored
SaveCompleted == last.op = "save" /\ ~last.raised

\* the scene that was stored under the id of the last operation when it began
PriorScene == Get(last.stored, last.scene_id, EmptyDict)

\* the prior scene holds for e an entry whose state is not unavailable, unknown
\* or absent
ValidPrior(e) ==
    /\ e \in DOMAIN PriorScene
    /\ ATTR_STATE \in DOMAIN PriorScene[e]
    /\ PriorScene[e][ATTR_STATE] \notin {STATE_UNAVAILABLE, STATE_UNKNOWN}

LiveUnavailable(e) ==
    e \in DOMAIN last.live /\ last.live[e].state = STATE_UNAVAILABLE

\* e got no snapshot in the round of the last save_scene: refused domain, not in
\* the state source, or an elicitation whose power-on was not confirmed
NoSnapshot(e) ==
    \/ DomainOf(e) \in NON_RESTORABLE
    \/ e \notin DOMAIN last.live
    \/ (calls[e] # <<>> /\ calls[e][1].outcome # "ok")

\* C1: apply_scene(scene_id) with a scene_id that is not a key of the stored map
\* returns false and issues no service call, whatever the rest of the state is.
C1_UnknownSceneReturnsFalse ==
    (last.op = "apply" /\ last.scene_id \notin DOMAIN last.stored)
        => /\ ~last.returned
           /\ ~last.raised
           /\ \A e \in Entities : calls[e] = <<>>

\* an unknown id applied while another scene is stored and its switch is on
C1_Witness ==
    /\ last.op = "apply"
    /\ last.scene_id \notin DOMAIN last.stored
    /\ \E other \in DOMAIN last.stored : Switch \in EntityKeys(last.stored[other])
    /\ last.live[Switch].state = STATE_ON

\* C2: when the restoration of one entity of the applied scene raises during
\* command dispatch, apply_scene returns false and every other entity of the
\* scene whose own dispatch did not raise has all of its commands issued.
C2_FailureIsolated ==
    AppliedStored =>
        \A e \in last.entities :
            HasOutcome(calls[e], "raise") =>
                /\ ~last.returned
                /\ ~last.raised
                /\ \A f \in last.entities \ {e} :
                       ~HasOutcome(calls[f], "raise") =>
                           Len(calls[f]) =
                               Len(ApplyState(last.live, f, PriorScene[f],
                                              SceneOptions(PriorScene)))

\* the switch's dispatch raised and the light of the same scene got its command
C2_Witness ==
    /\ AppliedStored
    /\ {Light, Switch} \subseteq last.entities
    /\ HasOutcome(calls[Switch], "raise")
    /\ calls[Light] # <<>>
    /\ ~HasOutcome(calls[Light], "raise")
    /\ ~last.returned

\* C3: apply_scene on a stored scene returns true exactly when no entity's
\* restoration raised; a watch that times out and a skipped entity do not make
\* it return false.
C3_TrueIffNoException ==
    AppliedStored =>
        (last.returned <=> \A e \in Entities : ~HasOutcome(calls[e], "raise"))

\* an apply that returned true although a watch timed out and an entity was skipped
C3_Witness ==
    /\ AppliedStored
    /\ last.returned
    /\ \E e \in last.entities : HasOutcome(calls[e], "timeout")
    /\ \E f \in last.entities : calls[f] = <<>>

\* C4: save_scene never writes into the scene an entry for an entity of a
\* non-restorable domain, whatever the requested set and the prior content of the
\* stored map, the fallback pass included.
C4_NoNonRestorableEntry ==
    SaveCompleted =>
        \A e \in EntityKeys(stored_data[last.scene_id]) :
            DomainOf(e) \notin NON_RESTORABLE

\* C5: apply_scene never issues a service call that targets an entity of a
\* non-restorable domain, even when the stored scene has an entry for it.
C5_NoCallForNonRestorable ==
    last.op = "apply" =>
        \A e \in Entities : DomainOf(e) \in NON_RESTORABLE => calls[e] = <<>>

\* a scene holding a sensor entry with a state was applied while the sensor was
\* usable, and another entity of the scene was commanded
C5_Witness ==
    /\ AppliedStored
    /\ Sensor \in last.entities
    /\ ATTR_STATE \in DOMAIN PriorScene[Sensor]
    /\ ~TargetUnusable(last.live, Sensor)
    /\ \E f \in last.entities : calls[f] # <<>>

\* C6: in save_scene, every requested entity that got no snapshot in this round
\* or whose live status is "unavailable", and for which the scene previously
\* stored under the same id has an entry whose status is not unavailable, unknown
\* or absent, is stored with a copy of that prior entry.
C6_FallbackReusesPrior ==
    SaveCompleted =>
        \A e \in last.entities :
            ((NoSnapshot(e) \/ LiveUnavailable(e)) /\ ValidPrior(e)) =>
                /\ e \in EntityKeys(stored_data[last.scene_id])
                /\ stored_data[last.scene_id][e] = PriorScene[e]

\* a save in which the light's elicitation was not confirmed and the switch
\* reported "unavailable", both with a valid prior entry that differs from
\* anything the state source reports
C6_Witness ==
    /\ SaveCompleted
    /\ {Light, Switch} \subseteq last.entities
    /\ calls[Light] # <<>> /\ calls[Light][1].outcome = "timeout"
    /\ LiveUnavailable(Switch)
    /\ ValidPrior(Light) /\ ValidPrior(Switch)
    /\ stored_data[last.scene_id][Light].attributes = [brightness |-> "40"]
    /\ stored_data[last.scene_id][Switch].state = STATE_ON

\* no valid prior snapshot: no prior scene, no prior entry, or a prior entry
\* whose status is unavailable, unknown or absent
NoValidPrior(e) == ~ValidPrior(e)

C8_FullReplace ==
    SaveCompleted =>
        /\ last.scene_id \in DOMAIN stored_data
        /\ EntityKeys(stored_data[last.scene_id]) \subseteq last.entities
        /\ DOMAIN stored_data = DOMAIN last.stored \cup {last.scene_id}
        /\ \A other \in DOMAIN last.stored \ {last.scene_id} :
               stored_data[other] = last.stored[other]

\* a re-save that left out an entity the prior scene had, next to another scene
C8_Witness ==
    /\ SaveCompleted
    /\ \E e \in EntityKeys(PriorScene) :
           /\ e \notin last.entities
           /\ ValidPrior(e)
    /\ last.entities # {}
    /\ \E other \in DOMAIN last.stored : other # last.scene_id

\* C9: save_scene for a scene_id with no stored scene and with entities that are
\* each of a non-restorable domain or absent from the state source completes
\* without raising, stores a scene with no entity entry, persists the map and
\* emits scene_added for scene_id.
C9_EmptySnapshotStored ==
    ( /\ last.op = "save"
      /\ last.scene_id \notin DOMAIN last.stored
      /\ \A e \in last.entities :
             DomainOf(e) \in NON_RESTORABLE \/ e \notin DOMAIN last.live )
        => /\ ~last.raised
           /\ last.scene_id \in DOMAIN stored_data
           /\ EntityKeys(stored_data[last.scene_id]) = {}
           /\ last.saved
           /\ persisted = stored_data
           /\ signals = <<<<SCENE_ADDED, last.scene_id>>>>

\* a new scene id saved for the sensor and the light while the light was absent
C9_Witness ==
    /\ last.op = "save"
    /\ last.scene_id \notin DOMAIN last.stored
    /\ last.entities = {Light, Sensor}
    /\ Light \notin DOMAIN last.live
    /\ last.scene_id \in DOMAIN stored_data

\* C10: delete_scene(scene_id) removes scene_id from the stored map and persists
\* the map when the id is present; when it is absent it leaves the map unchanged
\* and persists nothing; in both cases it emits exactly one scene_removed for
\* scene_id and leaves every other scene unchanged.
C10_DeleteScene ==
    last.op = "delete" =>
        /\ last.scene_id \notin DOMAIN stored_data
        /\ DOMAIN stored_data = DOMAIN last.stored \ {last.scene_id}
        /\ \A other \in DOMAIN stored_data : stored_data[other] = last.stored[other]
        /\ last.saved <=> last.scene_id \in DOMAIN last.stored
        /\ persisted = stored_data
        /\ signals = <<<<SCENE_REMOVED, last.scene_id>>>>

\* a stored scene was deleted and another scene remains
C10_Witness ==
    /\ last.op = "delete"
    /\ last.scene_id \in DOMAIN last.stored
    /\ stored_data # EmptyDict

\* C11: restore_scenes emits exactly one scene_added notification for each scene
\* id of the stored map and nothing else, changes neither the stored map nor the
\* persisted document and issues no service call.
C11_RestoreAnnouncesEach ==
    last.op = "restore" =>
        /\ Len(signals) = Cardinality(DOMAIN last.stored)
        /\ \A id \in DOMAIN last.stored :
               Cardinality({i \in DOMAIN signals : signals[i] = <<SCENE_ADDED, id>>}) = 1
        /\ stored_data = last.stored
        /\ ~last.saved
        /\ persisted = last.stored
        /\ \A e \in Entities : calls[e] = <<>>

\* a restoration over a stored map of two scenes
C11_Witness ==
    /\ last.op = "restore"
    /\ Cardinality(DOMAIN last.stored) = 2
    /\ Len(signals) = 2

\* the stored map as the rename of the last submitted form found it
RenameFound == AfterDelete(last.stored, last.delete_id)

\* the last operation is a submitted form that asks for a rename
RenameAsked == last.op = "options" /\ last.scene_id # "" /\ last.rename_to # ""

\* C12: a rename asked of the options flow leaves the stored map unchanged,
\* persists nothing and emits no notification when rename_from is not a key of the
\* map, and when rename_to is already a key and differs from rename_from; otherwise
\* the content stored under rename_from is moved unchanged to the key rename_to;
\* in both cases every other scene keeps its key and its content.
C12_RenameNeverOverwrites ==
    RenameAsked =>
        LET rename_from == last.scene_id
            rename_to == last.rename_to
            own == IF last.delete_id # "" THEN 1 ELSE 0
        IN  /\ IF \/ rename_from \notin DOMAIN RenameFound
                  \/ (rename_to \in DOMAIN RenameFound /\ rename_to # rename_from)
               THEN /\ stored_data = RenameFound
                    /\ ~last.saved
                    /\ Len(signals) = own
               ELSE /\ DOMAIN stored_data =
                           (DOMAIN RenameFound \ {rename_from}) \cup {rename_to}
                    /\ stored_data[rename_to] = RenameFound[rename_from]
                    /\ last.saved /\ persisted = stored_data
            /\ \A other \in DOMAIN RenameFound \ {rename_from} :
                   /\ other \in DOMAIN stored_data
                   /\ stored_data[other] = RenameFound[other]

\* a rename onto the id of another stored scene with a different content
C12_Witness ==
    /\ RenameAsked
    /\ {last.scene_id, last.rename_to} \subseteq DOMAIN RenameFound
    /\ last.rename_to # last.scene_id
    /\ RenameFound[last.rename_to] # RenameFound[last.scene_id]
    /\ stored_data = RenameFound

\* C13: get_user_options() after set_user_options(o) returns a value equal to what
\* o was when it was set, and a later change the caller makes to o or to a value
\* get_user_options() returned changes neither the options the manager holds nor
\* what the next get_user_options() returns.
C13_OptionsIsolated ==
    /\ last.op \in {"set_user_options", "get_user_options", "assign", "drop"}
           => user_options = last.installed
    /\ last.op = "get_user_options" => last.got = last.installed

\* the caller has changed the dict it had passed to set_user_options, and a
\* get_user_options that followed returned the value as it was passed
C13_Witness ==
    /\ last.op = "get_user_options"
    /\ "o" \in DOMAIN held
    /\ held["o"] # last.installed
    /\ last.installed # EmptyDict
    /\ last.got = last.installed

\* the entities the save of a round trip captured directly: every entity entry
\* of the applied scene but a light recorded "off" under restore_light_attributes
DirectlyCaptured ==
    {e \in EntityKeys(PriorScene) :
        ~ /\ DomainOf(e) = "light"
          /\ PriorScene[e].state = STATE_OFF
          /\ Get(SceneOptions(PriorScene), "restore_light_attributes", FALSE)}

\* C14: save_scene(scene_id, E, {}) followed immediately by apply_scene(scene_id),
\* with no external status change in between, issues for every entity of E whose
\* live status was captured directly a command sequence that sets the entity to
\* that captured status.  Read here for the entities captured with a status other
\* than "unavailable" and "unknown" and whose command dispatch does not raise.
C14_RoundTripReproduces ==
    last.op = "apply" =>
        \A e \in DirectlyCaptured :
            ( /\ PriorScene[e].state \notin {STATE_UNAVAILABLE, STATE_UNKNOWN}
              /\ ~HasOutcome(calls[e], "raise") )
                => /\ calls[e] # <<>>
                   /\ StatusAsked(calls[e]) = PriorScene[e].state

\* C19: during save_scene, an exception raised by the command dispatch of one
\* entity's elicited capture does not abort the save: no exception leaves
\* save_scene, and the snapshots of the other requested entities are still stored
\* under scene_id and persisted.
C19_SaveContainsDispatchFailure ==
    last.op = "save" =>
        \A e \in last.entities :
            HasOutcome(calls[e], "raise") =>
                /\ ~last.raised
                /\ last.saved
                /\ last.scene_id \in DOMAIN stored_data
                /\ persisted = stored_data
                /\ \A f \in Direct(last.entities, MergedOptions(last.options)) \ {e} :
                       f \in EntityKeys(stored_data[last.scene_id])

\* C15: async_call_and_wait_state removes its state-change subscription before it
\* returns on every exit path: when a qualifying notification arrives, when the
\* timeout elapses, and when the command call raises an exception; no
\* subscription of a finished watch stays registered.
C15_SubscriptionRemoved ==
    \A l \in listeners : Active(l)

\* run t is between two watches or past its last one, with a result to show
WatchReturned(t) == runs[t].pc \in {"start", "done"} /\ runs[t].results # <<>>

LastResult(t) == runs[t].results[Len(runs[t].results)]

\* C16: when an expected status is given and no notification whose new status
\* equals it arrives before the timeout, async_call_and_wait_state returns a
\* result with timeout=true, matched=false and null old and new values; a
\* notification carrying any other status does not end the wait, and a result
\* that is not a timeout carries the expected status.
C16_TimeoutResult ==
    \A t \in DOMAIN runs :
        /\ \A k \in DOMAIN runs[t].results :
               LET res == runs[t].results[k]
                   expected == runs[t].actions[res.step].expected
               IN  expected # Null =>
                       IF res.timeout
                       THEN ~res.matched /\ res.old_value = Null /\ res.new_value = Null
                       ELSE res.matched /\ res.new_value = expected
        /\ WatchReturned(t) =>
               LET expected == runs[t].actions[LastResult(t).step].expected
               IN  expected # Null =>
                       (LastResult(t).timeout <=>
                            ~ \E n \in runs[t].heard : n[2] = expected)

\* a watch that ended at its timeout after its callback had received a
\* notification of another status
C16_Witness ==
    \E t \in DOMAIN runs :
        /\ WatchReturned(t)
        /\ LastResult(t).timeout
        /\ runs[t].heard # {}

\* C17: in async_call_and_wait_state the subscription to the status changes of
\* entity_id, and of no other entity, is registered before the command is issued:
\* from the moment the command is issued until the watch returns the subscription
\* is in place, and every status the entity takes meanwhile reaches the callback.
C17_SubscribedBeforeCall ==
    \A t \in DOMAIN runs :
        /\ runs[t].pc = "waiting" =>
               /\ Subscription(t) \in listeners
               /\ runs[t].since \subseteq {n[2] : n \in runs[t].heard}
        /\ \A n \in runs[t].heard : n[1] = runs[t].entity_id

\* a watch whose own command changed the entity while another light was watched
\* by the other run, and whose callback took that change for its result
C17_Witness ==
    \E t \in DOMAIN runs :
        /\ runs[t].pc = "waiting"
        /\ runs[t].since # {}
        /\ runs[t].future # Pending
        /\ runs[t].future.by = t
        /\ \E u \in DOMAIN runs : runs[u].entity_id # runs[t].entity_id

\* C18: async_run_actions_sequentially issues the command of step i+1 only after
\* the watch of step i has returned its result (matched or timed out), so at most
\* one of its watches is active at a time, and it returns exactly one result per
\* step in step order.
C18_Sequential ==
    \A t \in DOMAIN runs :
        runs[t].caller = "save_scene" =>
            LET run == runs[t]
            IN  /\ run.sent = [k \in 1..Len(run.sent) |-> k]
                /\ Len(run.sent) \in {Len(run.results), Len(run.results) + 1}
                /\ Len(run.sent) = Len(run.results) + 1 => run.pc = "waiting"
                /\ Cardinality({l \in listeners : l.run = t}) <= 1
                /\ \A k \in DOMAIN run.results : run.results[k].step = k
                /\ run.pc = "done" => Len(run.results) = Len(run.actions)

\* the two steps of snapshot_light have returned, the first at its timeout and the
\* second on the awaited status
C18_Witness ==
    /\ runs[1].caller = "save_scene"
    /\ runs[1].pc = "done"
    /\ Len(runs[1].results) = 2
    /\ runs[1].results[1].timeout
    /\ ~runs[1].results[2].timeout

\* no result of a watch rests on a change that the command of another run made
NoMisattribution ==
    \A t \in DOMAIN runs :
        \A k \in DOMAIN runs[t].results : runs[t].results[k].by \in {0, t}

\* C20: in every interleaving of concurrently running save_scene and apply_scene
\* operations, at most one state watch of async_call_and_wait_state is active on
\* any one entity at a time, so no watch is completed by a status change that
\* another operation's command caused.
C20_OneWatchPerEntity ==
    /\ \A l1, l2 \in listeners :
           (Active(l1) /\ Active(l2) /\ l1 # l2) => l1.entity_id # l2.entity_id
    /\ NoMisattribution

\* the scene an apply_scene found in the store, and its light's log
AppliedScene == last.stored[last.scene_id]
LightApplied ==
    /\ AppliedStored
    /\ Light \in DOMAIN AppliedScene
    /\ Light \in DOMAIN last.live
    /\ last.live[Light].state \notin {STATE_UNAVAILABLE, STATE_UNKNOWN}

\* the "_options" entry of the applied scene is present and is a mapping
OverlayIsMapping ==
    /\ OPTIONS_KEY \in DOMAIN AppliedScene
    /\ AppliedScene[OPTIONS_KEY] \notin
            {None, ListOf(<<>>), ListOf(<<"restore_light_attributes">>)}

\* the value the merge order gives an option: scene overlay, then user options,
\* then the default
Precedence(key, default) ==
    IF OverlayIsMapping /\ key \in DOMAIN AppliedScene[OPTIONS_KEY]
    THEN AppliedScene[OPTIONS_KEY][key]
    ELSE IF key \in DOMAIN user_options THEN user_options[key] ELSE default

TurnOnIssued(log) == \E i \in DOMAIN log : log[i].service = SERVICE_TURN_ON

\* C21: when apply_scene restores a light, every watch runs with the
\* action_timeout of the scene's "_options" if present there, else of the user
\* options, else the default; a light saved "off" is powered on exactly when
\* restore_light_attributes, resolved in the same order, is true; and a stored
\* "_options" that is no mapping is ignored: the watches use the user options or
\* the default, nothing raises out of apply_scene and the other entities of the
\* scene still get their commands.
C21_OptionPrecedence ==
    LightApplied =>
        /\ \A i \in DOMAIN calls[Light] :
              calls[Light][i].timeout = Precedence("action_timeout", ACTION_TIMEOUT_DEFAULT)
        /\ AppliedScene[Light].state = STATE_OFF
              => (TurnOnIssued(calls[Light]) <=> Precedence("restore_light_attributes", FALSE))
        /\ (OPTIONS_KEY \in DOMAIN AppliedScene /\ ~OverlayIsMapping)
              => /\ ~last.raised
                 /\ calls[Light] # <<>>
                 /\ Switch \in DOMAIN AppliedScene => calls[Switch] # <<>>

\* the overlay and the user options disagree on the timeout and the overlay won
C21_Witness ==
    /\ LightApplied /\ OverlayIsMapping
    /\ "action_timeout" \in DOMAIN AppliedScene[OPTIONS_KEY]
    /\ "action_timeout" \in DOMAIN user_options
    /\ calls[Light] # <<>>
    /\ calls[Light][1].timeout = "10.0"

\* apply_scene ran apply_state for eid against a usable target
RestoredUsable(eid) ==
    /\ AppliedStored
    /\ eid \in DOMAIN AppliedScene
    /\ eid \in DOMAIN last.live
    /\ last.live[eid].state \notin {STATE_UNAVAILABLE, STATE_UNKNOWN}

\* C22: a climate entity with a non-empty saved status gets a command that sets
\* the HVAC mode to that status, with or without a saved temperature.
C22_HvacModeAlwaysSet ==
    (RestoredUsable(Climate) /\ AppliedScene[Climate].state # "")
        => \E i \in DOMAIN calls[Climate] :
              /\ "hvac_mode" \in DOMAIN calls[Climate][i].data
              /\ calls[Climate][i].data.hvac_mode = AppliedScene[Climate].state

\* apply_scene restored a usable light whose saved status is "off"
LightSavedOff == RestoredUsable(Light) /\ AppliedScene[Light].state = STATE_OFF

\* the dispatch of the light's power-on raised, which ends apply_state
TurnOnRaised(log) ==
    \E i \in DOMAIN log : log[i].service = SERVICE_TURN_ON /\ log[i].outcome = "raise"

\* C23: for a light saved "off", the power-off is the last command of the light
\* and nothing but a power-on precedes it; the power-on is issued when
\* restore_light_attributes is enabled, and the power-off then follows only a
\* power-on whose watch has returned, matched or timed out. (A power-on whose
\* dispatch raised ends the restoration of the light: no power-off is issued
\* before or after it.)
C23_PowerOffLast ==
    LightSavedOff =>
        LET log == calls[Light]
            n == Len(log)
        IN  /\ \A i \in DOMAIN log :
                  log[i].service = SERVICE_TURN_OFF
                      => /\ i = n
                         /\ \A j \in 1..(i - 1) :
                               /\ log[j].service = SERVICE_TURN_ON
                               /\ log[j].outcome \in {"ok", "timeout"}
            /\ ~TurnOnRaised(log) => (n >= 1 /\ log[n].service = SERVICE_TURN_OFF)
            /\ Precedence("restore_light_attributes", FALSE)
                  => (n >= 1 /\ log[1].service = SERVICE_TURN_ON)

\* the power-on of a light saved "off" timed out and the power-off followed it
C23_Witness ==
    /\ LightSavedOff
    /\ Len(calls[Light]) = 2
    /\ calls[Light][1].service = SERVICE_TURN_ON
    /\ calls[Light][1].outcome = "timeout"
    /\ calls[Light][2].service = SERVICE_TURN_OFF

\* the saved attributes of the applied light, and those that are not null
LightSaved == AppliedScene[Light].attributes
LightNonNull == {k \in DOMAIN LightSaved : LightSaved[k] # Null}

\* the attribute names the snapshot's group allows: those of a saved profile or
\* white, else those of the saved color mode (color_temp when none is saved)
GroupAllows ==
    IF LightNonNull \cap {"profile", "white"} # {} THEN {"brightness", "brightness_pct"}
    ELSE LET mode == IF "color_mode" \in LightNonNull THEN LightSaved["color_mode"]
                     ELSE "color_temp"
         IN  IF mode \in DOMAIN COLOR_MODE_ATTRS THEN COLOR_MODE_ATTRS[mode] ELSE {}

\* the attribute names of a payload besides the entity id and the transition
Carried(data) == DOMAIN data \ {"entity_id", "transition"}

\* C24: the power-on payload of a light carries the entity id, transition 0 and
\* only saved non-null attributes, with their saved values, that the snapshot's
\* group allows or that are universal; of brightness/brightness_pct and of
\* color_temp_kelvin/color_temp it never carries both, and it keeps brightness
\* and the kelvin value when they are saved and allowed; for color_mode rgb with
\* rgb_color, brightness 10 and brightness_pct 50 it carries rgb_color and
\* brightness and no brightness_pct.
C24_PowerOnPayload ==
    RestoredUsable(Light) =>
        \A i \in DOMAIN calls[Light] :
            calls[Light][i].service = SERVICE_TURN_ON =>
                LET data == calls[Light][i].data
                    keys == Carried(data)
                IN  /\ data.entity_id = Light /\ data.transition = 0
                    /\ \A k \in keys :
                          /\ k \in LightNonNull
                          /\ data[k] = LightSaved[k]
                          /\ k \in GroupAllows \cup COMMON_LIGHT_ATTRS
                    /\ ~({"brightness", "brightness_pct"} \subseteq keys)
                    /\ ~({"color_temp", "color_temp_kelvin"} \subseteq keys)
                    /\ \A k \in {"brightness", "color_temp_kelvin"} :
                          k \in LightNonNull \cap GroupAllows => k \in keys
                    /\ LightSaved = RgbAttrs => keys = {"rgb_color", "brightness"}

\* a power-on was issued for the light saved with the rgb attributes
C24_Witness ==
    /\ RestoredUsable(Light)
    /\ LightSaved = RgbAttrs
    /\ TurnOnIssued(calls[Light])
    /\ Carried(calls[Light][1].data) = {"rgb_color", "brightness"}

\* the option restore_light_attributes as save_scene merged it
SaveRestoresAttributes ==
    IF last.options # None /\ "restore_light_attributes" \in DOMAIN last.options
    THEN last.options["restore_light_attributes"]
    ELSE Get(user_options, "restore_light_attributes", FALSE)

\* save_scene captured eid by elicitation: a requested light that was "off"
\* while the merged option was enabled
CapturedByElicitation(eid) ==
    /\ last.op = "save"
    /\ eid \in last.entities
    /\ DomainOf(eid) = "light"
    /\ eid \in DOMAIN last.live
    /\ last.live[eid].state = STATE_OFF
    /\ SaveRestoresAttributes

\* the scene had no entry for eid before the save
NoPriorEntry(eid) ==
    last.scene_id \in DOMAIN last.stored => eid \notin DOMAIN last.stored[last.scene_id]

\* C25: when save_scene completes and the scene held no earlier entry for the
\* light, a light captured by elicitation has an entry in the saved scene exactly
\* when its power-on watch matched; a power-on that timed out leaves no entry,
\* and an entry is saved with status "off" and the attributes the power-on
\* notification carried even when the power-off watch timed out.
C25_EntryIffPowerOnMatched ==
    (SaveCompleted /\ CapturedByElicitation(Light) /\ NoPriorEntry(Light)) =>
        LET scene == stored_data[last.scene_id]
        IN  /\ Light \in DOMAIN scene <=> calls[Light][1].outcome = "ok"
            /\ calls[Light][1].outcome = "timeout" => Light \notin DOMAIN scene
            /\ Light \in DOMAIN scene =>
                  /\ scene[Light].state = STATE_OFF
                  /\ scene[Light].attributes = Reported(Light, STATE_ON).attributes
            /\ (calls[Light][1].outcome = "ok" /\ calls[Light][2].outcome = "timeout")
                  => Light \in DOMAIN scene

\* the power-on matched, the power-off timed out, and the entry was saved
C25_Witness ==
    /\ SaveCompleted /\ CapturedByElicitation(Light) /\ NoPriorEntry(Light)
    /\ calls[Light][1].outcome = "ok"
    /\ calls[Light][2].outcome = "timeout"
    /\ Light \in DOMAIN stored_data[last.scene_id]
    /\ stored_data[last.scene_id][Light].state = STATE_OFF

\* the saved scene records for e the status and attributes the state source held
RecordedAsRead(e) ==
    /\ e \in DOMAIN last.live
    /\ e \in EntityKeys(stored_data[last.scene_id])
    /\ stored_data[last.scene_id][e] =
           StateObj(last.live[e].state, last.live[e].attributes)

\* C26 as stated: save_scene issues commands only for the requested lights that
\* are "off" while the merged option restore_light_attributes is enabled, and
\* every other requested entity gets no command and is recorded with the live
\* status and attributes as read.
C26_OthersRecordedAsRead ==
    /\ last.op = "save" =>
          \A e \in Entities : calls[e] # <<>> => CapturedByElicitation(e)
    /\ SaveCompleted =>
          \A e \in last.entities :
              ~CapturedByElicitation(e) => (calls[e] = <<>> /\ RecordedAsRead(e))

\* C26 amended: commands go only to the requested lights that are "off" while
\* the merged option is enabled; every other requested entity gets no command,
\* and it is recorded as read when its domain is restorable and the state source
\* holds it, unless it reports "unavailable" and the scene held a valid earlier
\* entry for it (which is then kept in its place).
C26_CommandsOnlyForElicited ==
    /\ last.op = "save" =>
          \A e \in Entities : calls[e] # <<>> => CapturedByElicitation(e)
    /\ SaveCompleted =>
          \A e \in last.entities :
              ~CapturedByElicitation(e) =>
                  /\ calls[e] = <<>>
                  /\ ( /\ DomainOf(e) \notin NON_RESTORABLE
                       /\ e \in DOMAIN last.live
                       /\ ~(LiveUnavailable(e) /\ ValidPrior(e)) )
                        => RecordedAsRead(e)

\* a save with the option enabled that commanded the light, which was off, and
\* recorded the switch as read without commanding it; and beside them a requested
\* sensor that got no entry
C26_Witness ==
    /\ SaveCompleted
    /\ {Light, Switch, Sensor} \subseteq last.entities
    /\ CapturedByElicitation(Light) /\ calls[Light] # <<>>
    /\ calls[Switch] = <<>> /\ RecordedAsRead(Switch)
    /\ calls[Sensor] = <<>> /\ ~RecordedAsRead(Sensor)

\* when the apply started, e was absent from the state source or reported
\* "unavailable" or "unknown"
UnusableAtStart(e) ==
    \/ e \notin DOMAIN last.live
    \/ last.live[e].state \in {STATE_UNAVAILABLE, STATE_UNKNOWN}

\* C27: apply_scene issues no command for an entity of the scene that is absent
\* from the state source or reports "unavailable" or "unknown" when the apply
\* starts, and it still returns true when no other entity's dispatch raised.
C27_UnusableSkipped ==
    AppliedStored =>
        \A e \in EntityKeys(AppliedScene) :
            UnusableAtStart(e) =>
                /\ calls[e] = <<>>
                /\ (\A f \in ApplyEntities : ~HasOutcome(calls[f], "raise"))
                      => last.returned

\* a scene whose cover reported "unknown" was applied: the cover got no command,
\* the switch beside it got its command, and apply_scene returned true
C27_Witness ==
    /\ AppliedStored
    /\ {Cover, Switch} \subseteq EntityKeys(AppliedScene)
    /\ Cover \in DOMAIN last.live
    /\ last.live[Cover].state = STATE_UNKNOWN
    /\ calls[Cover] = <<>>
    /\ calls[Switch] # <<>>
    /\ last.returned

\* the watch of run t that is under way before the step is the same after it
SameWatch(t) ==
    runs[t].pc \in {"registered", "waiting"} /\ runs'[t].i = runs[t].i

\* the callback of run t received in this step a notification it had not heard
NewlyHeard(t) == IF SameWatch(t) THEN runs'[t].heard \ runs[t].heard ELSE {}

\* the notification's new status answers the watch of run t
Awaited(t, new_value) ==
    LET expected == runs[t].actions[runs[t].i].expected
    IN  IF expected = Null THEN TRUE ELSE new_value = expected

\* C28: every watch of async_call_and_wait_state that returns contributes exactly
\* one result. While the future has no result, the first notification whose new
\* status is the expected one (any notification when none is expected) sets a
\* result with matched true, timeout false and that new status; once set, the
\* result is not changed by any later notification, no timeout replaces it, and
\* it is the one result the watch returns.
C28_ExactlyOneResult ==
    [][\A t \in RunIds :
          /\ Len(runs'[t].results) = runs'[t].i - 1
          /\ (runs[t].future # Pending /\ SameWatch(t))
                => runs'[t].future = runs[t].future
          /\ (runs[t].future = Pending /\ SameWatch(t))
                => \A h \in NewlyHeard(t) :
                      Awaited(t, h[2]) =>
                          /\ runs'[t].future # Pending
                          /\ runs'[t].future.matched
                          /\ ~runs'[t].future.timeout
                          /\ runs'[t].future.new_value = h[2]
          /\ (runs[t].pc = "waiting" /\ runs[t].future # Pending
                  /\ runs'[t].i # runs[t].i)
                => /\ runs'[t].results = Append(runs[t].results, runs[t].future)
                   /\ runs[t].future.matched /\ ~runs[t].future.timeout
          /\ (runs[t].future = Pending /\ runs'[t].i # runs[t].i)
                => /\ Len(runs'[t].results) = Len(runs[t].results) + 1
                   /\ runs'[t].results[Len(runs'[t].results)].timeout
                   /\ ~runs'[t].results[Len(runs'[t].results)].matched
      ]_vars

\* a watch with no expected status holds the result of its first notification
\* while the light has since taken another status
C28_Witness ==
    \E t \in DOMAIN runs :
        /\ runs[t].pc = "waiting"
        /\ runs[t].actions[runs[t].i].expected = Null
        /\ runs[t].future # Pending
        /\ runs[t].future.matched
        /\ hass_states[runs[t].entity_id].state # runs[t].future.new_value

\* C29: a step of apply_scene leaves the stored map as it was, the "_options"
\* entry of the applied scene included, writes nothing to the persistent store
\* and emits no scene_added or scene_removed notification.
C29_ApplyFrame ==
    [][(last.op = "none" /\ last'.op = "apply")
          => /\ stored_data' = stored_data
             /\ persisted' = persisted
             /\ ~last'.saved
             /\ signals' = <<>>]_vars

\* a stored scene holding an "_options" entry was applied and a command was
\* issued for one of its entities
C29_Witness ==
    /\ AppliedStored
    /\ OPTIONS_KEY \in DOMAIN PriorScene
    /\ OPTIONS_KEY \in DOMAIN stored_data[last.scene_id]
    /\ \E e \in last.entities : calls[e] # <<>>

\* C30: in the command sequence apply_state issues for one entity through
\* call_service, the delay follows every command except the last one: the
\* restoration of the entity ends with no delay after its final command.
C30_NoDelayAfterLast ==
    AppliedStored =>
        \A e \in EntityKeys(AppliedScene) :
            LET log == calls[e]
            IN  (DomainOf(e) # "light" /\ log # <<>> /\ ~HasOutcome(log, "raise")) =>
                    /\ \A i \in 1..(Len(log) - 1) : log[i].delay = SERVICE_CALL_DELAY
                    /\ log[Len(log)].delay = 0

\* every concurrent call on the scene store has completed
AllCompleted == \A c \in DOMAIN ops : ops[c].pc = "done"

\* the topic of the last notification sent for scene_id
LastTopic(scene_id) ==
    LET sent == SelectSeq(signals, LAMBDA sig : sig[2] = scene_id)
    IN  sent[Len(sent)][1]

\* C31: once every concurrent save_scene and delete_scene call on a scene id has
\* completed, the last notification sent for the id is scene_added exactly when
\* the id is a key of the stored map.
C31_LastSignalMatchesMap ==
    (AllCompleted /\ ops # EmptyDict) =>
        (LastTopic("evening") = SCENE_ADDED <=> "evening" \in DOMAIN stored_data)

\* run t is the elicitation (snapshot_light) of a save_scene
Elicitation(t) == runs[t].caller = "save_scene"

\* C32: in an elicitation of save_scene the power-off is issued only after the
\* power-on and after the watch of the power-on has returned, and an elicitation
\* that runs to its end has issued both, also when the power-on watch timed out;
\* an elicitation ends earlier only when a dispatch raised, and when that was the
\* power-on's the light was commanded neither on nor off.
C32_PowerOffAfterElicitation ==
    \A t \in DOMAIN runs :
        Elicitation(t) =>
            /\ runs[t].sent \in {<<>>, <<1>>, <<1, 2>>}
            /\ runs[t].sent = <<1, 2>> => Len(runs[t].results) >= 1
            /\ runs[t].pc = "done" => runs[t].sent = <<1, 2>>
            /\ (runs[t].pc = "raised" /\ runs[t].i = 1) => runs[t].sent = <<>>
            /\ runs[t].actions[1].service = SERVICE_TURN_ON
            /\ runs[t].actions[2].service = SERVICE_TURN_OFF

\* an elicitation whose power-on watch timed out has ended with the power-off
\* issued
C32_Witness ==
    \E t \in DOMAIN runs :
        /\ Elicitation(t)
        /\ runs[t].pc = "done"
        /\ runs[t].results[1].timeout
        /\ runs[t].sent = <<1, 2>>

\* the coroutine of run t has ended: it returned its results or a dispatch raised
Ended(t) == runs[t].pc \in {"done", "raised"}

\* C33: the coroutines that save_scene and apply_scene wait for all end, so both
\* calls return, also when no state change is ever notified: every watch ends at
\* its timeout at the latest and every entity has finitely many commands.
C33_CallsReturn == <>(\A t \in RunIds : Ended(t))

\* both calls have returned with every watch ended by its timeout
C33_Witness ==
    \A t \in DOMAIN runs :
        /\ runs[t].pc = "done"
        /\ Len(runs[t].results) = 2
        /\ \A i \in DOMAIN runs[t].results : runs[t].results[i].timeout

\* the step is a scene_update: a signal is pending and the selectors' options
\* are listed anew
Refreshes == signals # <<>> /\ selectors' # selectors

\* the option list of the apply selector: the placeholder and the scene ids
ListsScenes(selector) ==
    /\ Len(selector.options) = 1 + Cardinality(DOMAIN stored_data)
    /\ selector.options[1] = PLACEHOLDER
    /\ {selector.options[i] : i \in 2..Len(selector.options)} = DOMAIN stored_data

\* C34: a refresh of the apply selector on scene_added or scene_removed calls no
\* apply_scene: it leaves the stored map, the state source and the commands as
\* they are, lists the placeholder and the scene ids, keeps a current option
\* that is still listed and otherwise falls back to "Apply scene". An
\* apply_scene of the selector comes only from the selection of a listed option
\* other than the placeholder, which becomes the current option.
C34_RefreshNeverApplies ==
    [][/\ Refreshes =>
            /\ last'.op = "refresh"
            /\ UNCHANGED <<stored_data, persisted, hass_states, calls>>
            /\ ListsScenes(selectors'[TRUE])
            /\ selectors'[TRUE].current =
                   IF selectors[TRUE].current \in DOMAIN stored_data
                   THEN selectors[TRUE].current ELSE PLACEHOLDER
       /\ (last'.op = "apply" /\ last' # last) =>
            /\ signals = <<>>
            /\ last'.scene_id # PLACEHOLDER
            /\ \E i \in DOMAIN selectors[TRUE].options :
                   selectors[TRUE].options[i] = last'.scene_id
            /\ selectors'[TRUE].current = last'.scene_id]_vars

\* the scene that was the current option has been removed and the refresh has
\* put the apply selector back on the placeholder
C34_Witness ==
    /\ last.op = "refresh"
    /\ last.prior[TRUE].current \in SceneIds
    /\ last.prior[TRUE].current \notin DOMAIN stored_data
    /\ selectors[TRUE].current = PLACEHOLDER
    /\ DOMAIN stored_data # {}

\* the call of the create service that is being handled, and the step that
\* handles it
Handling == 1 \in DOMAIN ops /\ ops[1].pc = "start"
Handles == Handling /\ ops'[1].pc # "start"

\* the call has no scene id, or none of the entities it names, directly or by
\* area or label, is in the state source
NoSceneId == ops[1].data.scene_id = ""
NoValidEntity == \A eid \in Expanded(ops[1].data) : eid \notin DOMAIN hass_states

\* C35: the create service ends with an error for a call whose scene_id is empty
\* and for a call none of whose entities, areas and labels expanded, is in the
\* state source; the stored map, the persistent store and the state source are
\* then as before, no command has been issued and no signal sent.
C35_CreateRejects ==
    [][(Handles /\ (NoSceneId \/ NoValidEntity)) =>
          /\ ops'[1].pc = (IF NoSceneId THEN "no_scene_id" ELSE "no_valid_entities")
          /\ last'.raised
          /\ UNCHANGED <<stored_data, persisted, hass_states>>
          /\ \A e \in DOMAIN calls' : calls'[e] = <<>>
          /\ signals' = <<>>]_vars

\* a call with a scene id that named entities through an area and a label, none
\* of them in the state source, has been rejected
C35_Witness ==
    /\ 1 \in DOMAIN ops /\ ops[1].pc = "no_valid_entities"
    /\ ops[1].data.scene_id = "evening"
    /\ ops[1].data.snapshot_areas # {} /\ ops[1].data.snapshot_labels # {}
    /\ Expanded(ops[1].data) = {Light, Switch, Sensor}
    /\ stored_data = last.stored /\ signals = <<>>

====
